---- MODULE Spec2Model ----
(***************************************************************************)
(* Fire detection system: the two Arduino sketches of the repository.     *)
(*                                                                         *)
(*   part_000                      TMP36 sketch ("Tinkercad optimized")    *)
(*   fire_detection_system.ino.ino DHT22 sketch ("Security Enhanced")      *)
(*                                                                         *)
(* One run of the model is one run of one sketch (variable sketch). The    *)
(* globals of a sketch are the fields of one record (tk, dht), named as in *)
(* the source; every function of a sketch is an operator from record to    *)
(* record. loop() is cut into its statements: one action per statement,    *)
(* sequenced by pc.                                                        *)
(*                                                                         *)
(* Temperatures. part_000 computes (analogValue * (5.0/1023.0) - 0.5)*100; *)
(* the model keeps the temperature times 1023, an integer                  *)
(* (500*analogValue - 51150), so every comparison with a threshold is the  *)
(* exact comparison (no analog value lies within float rounding of a       *)
(* threshold). The DHT22 delivers tenths of a degree; the model keeps the  *)
(* temperature in tenths.                                                  *)
(*                                                                         *)
(* Time. The sketches keep timestamps (lastSensorRead, ...) and only ever  *)
(* use the differences currentTime - last...; the model keeps these        *)
(* differences (since...), in ms, saturated at the largest period they are *)
(* compared with.                                                          *)
(***************************************************************************)
EXTENDS Integers, Sequences, FiniteSets, TLC

\* --------------------------------------------------------------- constants
HIGH == TRUE
LOW == FALSE

NORMAL == 0
WARNING == 1
DANGER == 2

AUTO_MODE == 0
DEMO_MODE == 1

\* part_000
TEMP_WARNING == 50
TEMP_DANGER == 60
TEMP_MIN_VALID == -10
TEMP_MAX_VALID == 85
MAX_SENSOR_ERRORS == 5
MAX_INVALID_COMMANDS == 3
SENSOR_INTERVAL == 1000
LED_SLOW_BLINK == 1000
LED_FAST_BLINK == 200
BUZZER_BEEP_INTERVAL == 2000
STATUS_LOG_INTERVAL == 3000

\* widths of the AVR types
Byte(n) == n % 256
UInt(n) == n % 65536

\* A temperature in degrees as part_000's scaled integer (degrees * 1023).
Deg(c) == c * 1023

\* A difference of timestamps, saturated at the period it is compared with.
Cap(n, k) == IF n > k THEN k ELSE n

\* Serial.println of one message: the model keeps a tag for each message.
Emit(s, msg) == [s EXCEPT !.serial = Append(@, msg)]

\* digitalWrite(pin, level)
digitalWrite(s, pin, level) == [s EXCEPT !.pins[pin] = level]

Pins == {"LED_RED", "LED_GREEN", "LED_YELLOW", "BUZZER", "RELAY"}

\* --------------------------------------------------------------- commands
\* A line of the serial port is a sequence of characters.
Lower == <<"a", "b", "c", "d", "e", "f", "g", "h", "i", "j", "k", "l", "m",
           "n", "o", "p", "q", "r", "s", "t", "u", "v", "w", "x", "y", "z">>
Upper == <<"A", "B", "C", "D", "E", "F", "G", "H", "I", "J", "K", "L", "M",
           "N", "O", "P", "Q", "R", "S", "T", "U", "V", "W", "X", "Y", "Z">>

isspace(c) == c \in {" ", "\t", "\n", "\r", "\f"}

toupper(c) ==
  IF \E i \in 1..Len(Lower) : Lower[i] = c
  THEN Upper[CHOOSE i \in 1..Len(Lower) : Lower[i] = c]
  ELSE c

\* String::trim(): drops the white space at both ends
trim(str) ==
  LET keep == {i \in 1..Len(str) : ~isspace(str[i])}
  IN IF keep = {} THEN <<>>
     ELSE LET first == CHOOSE i \in keep : \A j \in keep : i <= j
              last == CHOOSE i \in keep : \A j \in keep : j <= i
          IN SubSeq(str, first, last)

\* String::toUpperCase()
toUpperCase(str) == [i \in 1..Len(str) |-> toupper(str[i])]

\* what handleSerialCommands / handleSecureCommands hand on: trimmed, upper case
Normalized(str) == toUpperCase(trim(str))

K_HELP == <<"H", "E", "L", "P">>
K_STATUS == <<"S", "T", "A", "T", "U", "S">>
K_TEST_NORMAL == <<"T", "E", "S", "T", "_", "N", "O", "R", "M", "A", "L">>
K_TEST_WARNING == <<"T", "E", "S", "T", "_", "W", "A", "R", "N", "I", "N", "G">>
K_TEST_DANGER == <<"T", "E", "S", "T", "_", "D", "A", "N", "G", "E", "R">>
K_MOTION == <<"M", "O", "T", "I", "O", "N">>
K_RESET == <<"R", "E", "S", "E", "T">>
K_AUTO == <<"A", "U", "T", "O">>
K_DEMO == <<"D", "E", "M", "O">>
K_STATS == <<"S", "T", "A", "T", "S">>
K_SECURITY == <<"S", "E", "C", "U", "R", "I", "T", "Y">>

\* the lines the operator sends in the model
L_help == <<"H", "E", "L", "P">>
L_status == <<"s", "t", "a", "t", "u", "s">>
L_stats == <<"S", "T", "A", "T", "S">>
L_security == <<"S", "E", "C", "U", "R", "I", "T", "Y">>
L_test_normal == <<"T", "E", "S", "T", "_", "N", "O", "R", "M", "A", "L">>
L_test_warning == <<"T", "e", "s", "t", "_", "W", "a", "r", "n", "i", "n", "g">>
L_test_danger == <<" ", "t", "e", "s", "t", "_", "d", "a", "n", "g", "e", "r", "\r">>
L_motion == <<"M", "O", "T", "I", "O", "N">>
L_reset == <<"r", "e", "s", "e", "t", "\r">>
L_auto == <<"A", "U", "T", "O">>
L_demo == <<"D", "E", "M", "O">>
L_empty == <<>>
L_blank == <<" ", "\r">>
L_unknown == <<"F", "I", "R", "E">>
\* 18 characters, 5 after trim()
L_padded == <<" ", " ", "R", "E", "S", "E", "T", " ", " ", " ", " ", " ", " ",
              " ", " ", " ", " ", " ">>
\* 16 characters: over the ceiling of part_000, under that of the DHT22 sketch
L_long16 == <<"T", "E", "S", "T", "_", "D", "A", "N", "G", "E", "R", "_", "F",
              "I", "R", "E">>
\* 25 characters: over both ceilings
L_long25 == <<"T", "E", "S", "T", "_", "D", "A", "N", "G", "E", "R", "_", "S",
              "U", "P", "P", "R", "E", "S", "S", "I", "O", "N", "_", "X">>

AllLines == {L_help, L_status, L_stats, L_security, L_test_normal,
             L_test_warning, L_test_danger, L_motion, L_reset, L_auto, L_demo,
             L_empty, L_blank, L_unknown, L_padded, L_long16, L_long25}

\* ================================================================ part_000
\* variant of TkInit: setup() ends with lastSensorRead = millis(), so that the
\* first pass of loop() finds no refresh due
TkInit_SensorJustRead ==
  [currentRiskLevel |-> NORMAL,
   systemMode |-> AUTO_MODE,
   currentTemperature |-> Deg(25),
   demoTemperature |-> Deg(25),
   lastValidTemperature |-> Deg(25),
   motionDetected |-> FALSE,
   demoMotion |-> FALSE,
   suppressionActivated |-> FALSE,
   sensorErrorCount |-> 0,
   invalidCommandCount |-> 0,
   systemIntegrityOK |-> TRUE,
   sinceSensorRead |-> 0,
   sinceLedUpdate |-> LED_SLOW_BLINK,
   sinceBuzzerUpdate |-> BUZZER_BEEP_INTERVAL,
   sinceStatusLog |-> 2000,
   sinceLoopStart |-> 0,
   ledBlinkState |-> FALSE,
   buzzerBeepState |-> FALSE,
   totalSensorReadings |-> 0,
   warningActivations |-> 0,
   dangerActivations |-> 0,
   suppressionActivations |-> 0,
   pins |-> [p \in Pins |-> p = "LED_GREEN"],
   serial |-> <<>>]

\* the globals after setup(), at the first pass of loop()
TkInit ==
  [currentRiskLevel |-> NORMAL,
   systemMode |-> AUTO_MODE,
   currentTemperature |-> Deg(25),
   demoTemperature |-> Deg(25),
   lastValidTemperature |-> Deg(25),
   motionDetected |-> FALSE,
   demoMotion |-> FALSE,
   suppressionActivated |-> FALSE,
   sensorErrorCount |-> 0,
   invalidCommandCount |-> 0,
   systemIntegrityOK |-> TRUE,
   \* currentTime - lastSensorRead, ... : setup() has spent over 2 s
   sinceSensorRead |-> SENSOR_INTERVAL,
   sinceLedUpdate |-> LED_SLOW_BLINK,
   sinceBuzzerUpdate |-> BUZZER_BEEP_INTERVAL,
   sinceStatusLog |-> 2000,
   \* millis() - currentTime: the time spent inside this pass of loop()
   sinceLoopStart |-> 0,
   ledBlinkState |-> FALSE,
   buzzerBeepState |-> FALSE,
   totalSensorReadings |-> 0,
   warningActivations |-> 0,
   dangerActivations |-> 0,
   suppressionActivations |-> 0,
   pins |-> [p \in Pins |-> p = "LED_GREEN"],
   serial |-> <<>>]

\* (voltage - 0.5) * 100.0 with voltage = analogValue * (5.0 / 1023.0),
\* times 1023
TMP36(analogValue) == 500 * analogValue - Deg(50)

\* variant of readTMP36Temperature: the flag falls one rejection late (> for >=)
readTMP36Temperature_LateAlert(s, analogValue) ==
  LET temperature == TMP36(analogValue)
  IN IF temperature >= Deg(TEMP_MIN_VALID) /\ temperature <= Deg(TEMP_MAX_VALID)
     THEN [s EXCEPT !.currentTemperature = temperature,
                    !.lastValidTemperature = temperature,
                    !.sensorErrorCount = 0,
                    !.systemIntegrityOK = TRUE]
     ELSE LET s1 == [s EXCEPT !.sensorErrorCount = Byte(@ + 1),
                              !.currentTemperature = s.lastValidTemperature]
              s2 == Emit(s1, "invalid temperature reading")
          IN IF s2.sensorErrorCount > MAX_SENSOR_ERRORS
             THEN [Emit(s2, "ALERT: multiple sensor failures")
                     EXCEPT !.systemIntegrityOK = FALSE]
             ELSE s2

\* variant of readTMP36Temperature: a rejected reading is still taken as the
\* effective temperature
readTMP36Temperature_KeepsRejected(s, analogValue) ==
  LET temperature == TMP36(analogValue)
  IN IF temperature >= Deg(TEMP_MIN_VALID) /\ temperature <= Deg(TEMP_MAX_VALID)
     THEN [s EXCEPT !.currentTemperature = temperature,
                    !.lastValidTemperature = temperature,
                    !.sensorErrorCount = 0,
                    !.systemIntegrityOK = TRUE]
     ELSE LET s1 == [s EXCEPT !.sensorErrorCount = Byte(@ + 1),
                              !.currentTemperature = temperature]
              s2 == Emit(s1, "invalid temperature reading")
          IN IF s2.sensorErrorCount >= MAX_SENSOR_ERRORS
             THEN [Emit(s2, "ALERT: multiple sensor failures")
                     EXCEPT !.systemIntegrityOK = FALSE]
             ELSE s2

readTMP36Temperature(s, analogValue) ==
  LET temperature == TMP36(analogValue)
  IN IF temperature >= Deg(TEMP_MIN_VALID) /\ temperature <= Deg(TEMP_MAX_VALID)
     THEN [s EXCEPT !.currentTemperature = temperature,
                    !.lastValidTemperature = temperature,
                    !.sensorErrorCount = 0,
                    !.systemIntegrityOK = TRUE]
     ELSE LET s1 == [s EXCEPT !.sensorErrorCount = Byte(@ + 1),
                              !.currentTemperature = s.lastValidTemperature]
              s2 == Emit(s1, "invalid temperature reading")
          IN IF s2.sensorErrorCount >= MAX_SENSOR_ERRORS
             THEN [Emit(s2, "ALERT: multiple sensor failures")
                     EXCEPT !.systemIntegrityOK = FALSE]
             ELSE s2

\* variant of readSensorsWithValidation: the injected temperature goes through
\* the range validation of the hardware readings
readSensorsWithValidation_ValidatesDemo(s, analogValue, pir) ==
  LET s1 == [s EXCEPT !.totalSensorReadings = UInt(@ + 1)]
  IN IF s1.systemMode = DEMO_MODE
     THEN IF /\ s1.demoTemperature >= Deg(TEMP_MIN_VALID)
             /\ s1.demoTemperature <= Deg(TEMP_MAX_VALID)
          THEN [s1 EXCEPT !.currentTemperature = s1.demoTemperature,
                          !.lastValidTemperature = s1.demoTemperature,
                          !.motionDetected = s1.demoMotion,
                          !.sensorErrorCount = 0]
          ELSE [s1 EXCEPT !.currentTemperature = s1.lastValidTemperature,
                          !.motionDetected = s1.demoMotion,
                          !.sensorErrorCount = Byte(@ + 1)]
     ELSE [readTMP36Temperature(s1, analogValue) EXCEPT !.motionDetected = pir]

readSensorsWithValidation(s, analogValue, pir) ==
  LET s1 == [s EXCEPT !.totalSensorReadings = UInt(@ + 1)]
  IN IF s1.systemMode = DEMO_MODE
     THEN [s1 EXCEPT !.currentTemperature = s1.demoTemperature,
                     !.motionDetected = s1.demoMotion,
                     !.sensorErrorCount = 0]
     ELSE [readTMP36Temperature(s1, analogValue) EXCEPT !.motionDetected = pir]

\* evaluateFireRisk, the three branches; previousLevel is the level before
EnterDanger(s, previousLevel) ==
  LET d == [s EXCEPT !.currentRiskLevel = DANGER]
  IN IF previousLevel # DANGER
     THEN Emit([d EXCEPT !.dangerActivations = UInt(@ + 1)],
               "DANGER LEVEL ACTIVATED")
     ELSE d

EnterWarning(s, previousLevel) ==
  LET w == [s EXCEPT !.currentRiskLevel = WARNING]
  IN IF previousLevel # WARNING
     THEN Emit([w EXCEPT !.warningActivations = UInt(@ + 1)],
               "WARNING LEVEL ACTIVATED")
     ELSE w

\* variant of EnterNormal: the transition to Normal leaves the latch set
EnterNormal_KeepsLatch(s, previousLevel) ==
  LET n == [s EXCEPT !.currentRiskLevel = NORMAL]
  IN IF previousLevel # NORMAL THEN Emit(n, "NORMAL LEVEL RESTORED") ELSE n

EnterNormal(s, previousLevel) ==
  LET n == [s EXCEPT !.currentRiskLevel = NORMAL]
  IN IF previousLevel # NORMAL
     THEN [Emit(n, "NORMAL LEVEL RESTORED") EXCEPT !.suppressionActivated = FALSE]
     ELSE n

\* variant of PresenceAlert: the motion flag is not tested
PresenceAlert_IgnoresMotion(s) ==
  IF s.currentRiskLevel >= WARNING
  THEN Emit(s, "ALERT: human presence in risk zone")
  ELSE s

\* "enhanced detection with motion sensor"
PresenceAlert(s) ==
  IF s.currentRiskLevel >= WARNING /\ s.motionDetected
  THEN Emit(s, "ALERT: human presence in risk zone")
  ELSE s

\* variant of evaluateFireRisk: strict comparisons with the thresholds
evaluateFireRisk_StrictThresholds(s) ==
  PresenceAlert(
    IF s.currentTemperature > Deg(TEMP_DANGER)
    THEN EnterDanger(s, s.currentRiskLevel)
    ELSE IF s.currentTemperature > Deg(TEMP_WARNING)
    THEN EnterWarning(s, s.currentRiskLevel)
    ELSE EnterNormal(s, s.currentRiskLevel))

evaluateFireRisk(s) ==
  PresenceAlert(
    IF s.currentTemperature >= Deg(TEMP_DANGER)
    THEN EnterDanger(s, s.currentRiskLevel)
    ELSE IF s.currentTemperature >= Deg(TEMP_WARNING)
    THEN EnterWarning(s, s.currentRiskLevel)
    ELSE EnterNormal(s, s.currentRiskLevel))

\* variant of updateLEDIndicators: the time of the toggle is not recorded
updateLEDIndicators_NoTimestamp(s) ==
  CASE s.currentRiskLevel = NORMAL ->
         digitalWrite(digitalWrite(digitalWrite(s, "LED_GREEN", HIGH),
                                   "LED_YELLOW", LOW), "LED_RED", LOW)
    [] s.currentRiskLevel = WARNING ->
         IF s.sinceLedUpdate >= LED_SLOW_BLINK
         THEN LET b == [s EXCEPT !.ledBlinkState = ~@]
              IN digitalWrite(digitalWrite(digitalWrite(b, "LED_GREEN", LOW),
                                   "LED_YELLOW", b.ledBlinkState), "LED_RED", LOW)
         ELSE s
    [] s.currentRiskLevel = DANGER ->
         IF s.sinceLedUpdate >= LED_FAST_BLINK
         THEN LET b == [s EXCEPT !.ledBlinkState = ~@]
              IN digitalWrite(digitalWrite(digitalWrite(b, "LED_GREEN", LOW),
                                   "LED_YELLOW", LOW), "LED_RED", b.ledBlinkState)
         ELSE s

\* variant of updateLEDIndicators: the LED shares the last-toggle timestamp
\* of the buzzer (lastBuzzerUpdate for lastLedUpdate)
updateLEDIndicators_SharedTimestamp(s) ==
  CASE s.currentRiskLevel = NORMAL ->
         digitalWrite(digitalWrite(digitalWrite(s, "LED_GREEN", HIGH),
                                   "LED_YELLOW", LOW), "LED_RED", LOW)
    [] s.currentRiskLevel = WARNING ->
         IF s.sinceBuzzerUpdate >= LED_SLOW_BLINK
         THEN LET b == [s EXCEPT !.ledBlinkState = ~@]
              IN [digitalWrite(digitalWrite(digitalWrite(b, "LED_GREEN", LOW),
                                   "LED_YELLOW", b.ledBlinkState), "LED_RED", LOW)
                    EXCEPT !.sinceBuzzerUpdate = 0]
         ELSE s
    [] s.currentRiskLevel = DANGER ->
         IF s.sinceBuzzerUpdate >= LED_FAST_BLINK
         THEN LET b == [s EXCEPT !.ledBlinkState = ~@]
              IN [digitalWrite(digitalWrite(digitalWrite(b, "LED_GREEN", LOW),
                                   "LED_YELLOW", LOW), "LED_RED", b.ledBlinkState)
                    EXCEPT !.sinceBuzzerUpdate = 0]
         ELSE s

updateLEDIndicators(s) ==
  CASE s.currentRiskLevel = NORMAL ->
         digitalWrite(digitalWrite(digitalWrite(s, "LED_GREEN", HIGH),
                                   "LED_YELLOW", LOW), "LED_RED", LOW)
    [] s.currentRiskLevel = WARNING ->
         IF s.sinceLedUpdate >= LED_SLOW_BLINK
         THEN LET b == [s EXCEPT !.ledBlinkState = ~@]
              IN [digitalWrite(digitalWrite(digitalWrite(b, "LED_GREEN", LOW),
                                   "LED_YELLOW", b.ledBlinkState), "LED_RED", LOW)
                    EXCEPT !.sinceLedUpdate = 0]
         ELSE s
    [] s.currentRiskLevel = DANGER ->
         IF s.sinceLedUpdate >= LED_FAST_BLINK
         THEN LET b == [s EXCEPT !.ledBlinkState = ~@]
              IN [digitalWrite(digitalWrite(digitalWrite(b, "LED_GREEN", LOW),
                                   "LED_YELLOW", LOW), "LED_RED", b.ledBlinkState)
                    EXCEPT !.sinceLedUpdate = 0]
         ELSE s

\* variant of updateBuzzerAlerts: the Danger branch beeps as the Warning one
updateBuzzerAlerts_BeepsAtDanger(s) ==
  CASE s.currentRiskLevel = NORMAL ->
         [digitalWrite(s, "BUZZER", LOW) EXCEPT !.buzzerBeepState = FALSE]
    [] s.currentRiskLevel \in {WARNING, DANGER} ->
         IF s.sinceBuzzerUpdate >= BUZZER_BEEP_INTERVAL
         THEN LET b == [s EXCEPT !.buzzerBeepState = ~@]
              IN [digitalWrite(b, "BUZZER", b.buzzerBeepState)
                    EXCEPT !.sinceBuzzerUpdate = 0]
         ELSE s

updateBuzzerAlerts(s) ==
  CASE s.currentRiskLevel = NORMAL ->
         [digitalWrite(s, "BUZZER", LOW) EXCEPT !.buzzerBeepState = FALSE]
    [] s.currentRiskLevel = WARNING ->
         IF s.sinceBuzzerUpdate >= BUZZER_BEEP_INTERVAL
         THEN LET b == [s EXCEPT !.buzzerBeepState = ~@]
              IN [digitalWrite(b, "BUZZER", b.buzzerBeepState)
                    EXCEPT !.sinceBuzzerUpdate = 0]
         ELSE s
    [] s.currentRiskLevel = DANGER ->
         [digitalWrite(s, "BUZZER", HIGH) EXCEPT !.buzzerBeepState = TRUE]

\* variant of validateSuppressionCommand: a warm-up floor of 4 readings
validateSuppressionCommand_LongWarmup(s) ==
  s.currentTemperature >= Deg(TEMP_DANGER)
    /\ s.totalSensorReadings > 4
    /\ s.systemIntegrityOK

\* variant of validateSuppressionCommand: systemIntegrityOK is not tested
validateSuppressionCommand_NoIntegrity(s) ==
  s.currentTemperature >= Deg(TEMP_DANGER) /\ s.totalSensorReadings > 3

validateSuppressionCommand(s) ==
  s.currentTemperature >= Deg(TEMP_DANGER)
    /\ s.totalSensorReadings > 3
    /\ s.systemIntegrityOK

\* variant of SuppressionStarts: the latch is not tested
SuppressionStarts_NoLatch(s) ==
  s.currentRiskLevel = DANGER /\ validateSuppressionCommand(s)

\* handleFireSuppression: does the suppression sequence start in this pass?
SuppressionStarts(s) ==
  s.currentRiskLevel = DANGER /\ ~s.suppressionActivated
    /\ validateSuppressionCommand(s)

\* handleFireSuppression, when the sequence does not start
SuppressionSkipped(s) ==
  IF s.currentRiskLevel = DANGER /\ ~s.suppressionActivated
  THEN Emit(s, "SECURITY: suppression validation failed")
  ELSE s

\* activateFireSuppression up to the relay going high
DeploySuppression(s) ==
  LET s1 == [s EXCEPT !.suppressionActivations = UInt(@ + 1),
                      !.suppressionActivated = TRUE]
  IN digitalWrite(Emit(s1, "FIRE SUPPRESSION ACTIVATED"), "RELAY", HIGH)

\* one cycle of the confirmation flash: all LEDs on, 100 ms, off, 100 ms
FlashAllLeds(s) ==
  LET on == digitalWrite(digitalWrite(digitalWrite(s, "LED_RED", HIGH),
                             "LED_YELLOW", HIGH), "LED_GREEN", HIGH)
      off == digitalWrite(digitalWrite(digitalWrite(on, "LED_RED", LOW),
                             "LED_YELLOW", LOW), "LED_GREEN", LOW)
  IN [off EXCEPT !.sinceLoopStart = @ + 200]

\* variant of CompleteSuppression: the relay is not driven low at the end
CompleteSuppression_RelayStaysOn(s) ==
  LET f == FlashAllLeds(FlashAllLeds(FlashAllLeds(s)))
      h == [f EXCEPT !.sinceLoopStart = @ + 3000]
  IN Emit(h, "suppression cycle completed")

\* activateFireSuppression from the flash to the end: 3 flashes, delay(3000),
\* relay low
CompleteSuppression(s) ==
  LET f == FlashAllLeds(FlashAllLeds(FlashAllLeds(s)))
      h == [f EXCEPT !.sinceLoopStart = @ + 3000]
  IN Emit(digitalWrite(h, "RELAY", LOW), "suppression cycle completed")

activateFireSuppression(s) == CompleteSuppression(DeploySuppression(s))

\* variant of validateDemoCommand: one reading is enough
validateDemoCommand_NoFloor(s) == s.totalSensorReadings >= 1

validateDemoCommand(s) == s.totalSensorReadings > 1

\* variant of resetSystemSecure: the outputs are not written
resetSystemSecure_KeepsOutputs(s) ==
  [Emit(s, "SECURE SYSTEM RESET") EXCEPT
     !.currentRiskLevel = NORMAL,
     !.systemMode = AUTO_MODE,
     !.suppressionActivated = FALSE,
     !.demoTemperature = Deg(25),
     !.demoMotion = FALSE,
     !.sensorErrorCount = 0,
     !.invalidCommandCount = 0,
     !.systemIntegrityOK = TRUE]

\* variant of resetSystemSecure: invalidCommandCount is not reset
resetSystemSecure_KeepsInvalidCount(s) ==
  LET s1 == [Emit(s, "SECURE SYSTEM RESET") EXCEPT
               !.currentRiskLevel = NORMAL,
               !.systemMode = AUTO_MODE,
               !.suppressionActivated = FALSE,
               !.demoTemperature = Deg(25),
               !.demoMotion = FALSE,
               !.sensorErrorCount = 0,
               !.systemIntegrityOK = TRUE]
  IN digitalWrite(digitalWrite(digitalWrite(digitalWrite(digitalWrite(
       s1, "RELAY", LOW), "BUZZER", LOW), "LED_RED", LOW),
       "LED_YELLOW", LOW), "LED_GREEN", HIGH)

\* variant of resetSystemSecure: the suppression latch is not cleared
resetSystemSecure_KeepsLatch(s) ==
  LET s1 == [Emit(s, "SECURE SYSTEM RESET") EXCEPT
               !.currentRiskLevel = NORMAL,
               !.systemMode = AUTO_MODE,
               !.demoTemperature = Deg(25),
               !.demoMotion = FALSE,
               !.sensorErrorCount = 0,
               !.invalidCommandCount = 0,
               !.systemIntegrityOK = TRUE]
  IN digitalWrite(digitalWrite(digitalWrite(digitalWrite(digitalWrite(
       s1, "RELAY", LOW), "BUZZER", LOW), "LED_RED", LOW),
       "LED_YELLOW", LOW), "LED_GREEN", HIGH)

\* variant of resetSystemSecure: the risk level is not set to Normal
resetSystemSecure_KeepsLevel(s) ==
  LET s1 == [Emit(s, "SECURE SYSTEM RESET") EXCEPT
               !.systemMode = AUTO_MODE,
               !.suppressionActivated = FALSE,
               !.demoTemperature = Deg(25),
               !.demoMotion = FALSE,
               !.sensorErrorCount = 0,
               !.invalidCommandCount = 0,
               !.systemIntegrityOK = TRUE]
  IN digitalWrite(digitalWrite(digitalWrite(digitalWrite(digitalWrite(
       s1, "RELAY", LOW), "BUZZER", LOW), "LED_RED", LOW),
       "LED_YELLOW", LOW), "LED_GREEN", HIGH)

resetSystemSecure(s) ==
  LET s1 == [Emit(s, "SECURE SYSTEM RESET") EXCEPT
               !.currentRiskLevel = NORMAL,
               !.systemMode = AUTO_MODE,
               !.suppressionActivated = FALSE,
               !.demoTemperature = Deg(25),
               !.demoMotion = FALSE,
               !.sensorErrorCount = 0,
               !.invalidCommandCount = 0,
               !.systemIntegrityOK = TRUE]
      s2 == digitalWrite(digitalWrite(digitalWrite(digitalWrite(digitalWrite(
              s1, "RELAY", LOW), "BUZZER", LOW), "LED_RED", LOW),
              "LED_YELLOW", LOW), "LED_GREEN", HIGH)
  IN s2

\* variant of DemoCommand: the mode is not switched to Demo
DemoCommand_KeepsMode(s, degrees) ==
  IF validateDemoCommand(s)
  THEN Emit([s EXCEPT !.demoTemperature = Deg(degrees)], "demo mode temperature")
  ELSE Emit(s, "SECURITY: demo command requires system initialization")

\* variant of DemoCommand: the accepted command applies the injected
\* temperature and evaluates the risk at once
DemoCommand_EvaluatesAtOnce(s, degrees) ==
  IF validateDemoCommand(s)
  THEN evaluateFireRisk(
         Emit([s EXCEPT !.systemMode = DEMO_MODE,
                        !.demoTemperature = Deg(degrees),
                        !.currentTemperature = Deg(degrees)],
              "demo mode temperature"))
  ELSE Emit(s, "SECURITY: demo command requires system initialization")

\* TEST_NORMAL / TEST_WARNING / TEST_DANGER
DemoCommand(s, degrees) ==
  IF validateDemoCommand(s)
  THEN Emit([s EXCEPT !.systemMode = DEMO_MODE,
                      !.demoTemperature = Deg(degrees)], "demo mode temperature")
  ELSE Emit(s, "SECURITY: demo command requires system initialization")

processSecureCommand(s, cmd) ==
  IF Len(cmd) = 0 \/ Len(cmd) > 15
  THEN Emit([s EXCEPT !.invalidCommandCount = Byte(@ + 1)],
            "SECURITY: invalid command format")
  ELSE
    LET p == Emit(s, "processing command")
    IN CASE cmd = K_HELP -> Emit(p, "help")
         [] cmd = K_STATUS -> Emit(p, "status")
         [] cmd = K_TEST_NORMAL -> DemoCommand(p, 25)
         [] cmd = K_TEST_WARNING -> DemoCommand(p, 55)
         [] cmd = K_TEST_DANGER -> DemoCommand(p, 70)
         [] cmd = K_MOTION ->
              Emit([p EXCEPT !.demoMotion = ~@], "motion detection")
         [] cmd = K_RESET -> resetSystemSecure(p)
         [] cmd = K_AUTO ->
              Emit([p EXCEPT !.systemMode = AUTO_MODE], "switched to automatic")
         [] cmd = K_DEMO ->
              Emit([p EXCEPT !.systemMode = DEMO_MODE], "switched to demonstration")
         [] cmd = K_STATS -> Emit(p, "statistics")
         [] cmd = K_SECURITY -> Emit(p, "security status")
         [] OTHER ->
              LET u == Emit([p EXCEPT !.invalidCommandCount = Byte(@ + 1)],
                            "unknown command")
              IN IF u.invalidCommandCount >= MAX_INVALID_COMMANDS
                 THEN [Emit(u, "ALERT: multiple invalid commands")
                         EXCEPT !.invalidCommandCount = 0]
                 ELSE u

\* rx: the lines waiting on the serial port, <<>> when Serial.available() = 0
handleSerialCommands(s, rx) ==
  IF rx = <<>> THEN s ELSE processSecureCommand(s, Normalized(rx[1]))

\* variant of TkAdvance: lastSensorRead follows the clock in every pass, so
\* that the time since the last refresh does not grow
TkAdvance_SensorClockStuck(s, d) ==
  LET e == s.sinceLoopStart + d
  IN [s EXCEPT !.sinceLedUpdate = Cap(@ + e, LED_SLOW_BLINK),
               !.sinceBuzzerUpdate = Cap(@ + e, BUZZER_BEEP_INTERVAL),
               !.sinceStatusLog = Cap(@ + e, STATUS_LOG_INTERVAL),
               !.sinceLoopStart = 0]

\* loop(): currentTime = millis(), then the sensors when they are due.
\* d: the time since the previous pass read millis(), less what the previous
\* pass spent in delay()
TkAdvance(s, d) ==
  LET e == s.sinceLoopStart + d
  IN [s EXCEPT !.sinceSensorRead = Cap(@ + e, SENSOR_INTERVAL),
               !.sinceLedUpdate = Cap(@ + e, LED_SLOW_BLINK),
               !.sinceBuzzerUpdate = Cap(@ + e, BUZZER_BEEP_INTERVAL),
               !.sinceStatusLog = Cap(@ + e, STATUS_LOG_INTERVAL),
               !.sinceLoopStart = 0]

TkSensorsDue(s) == s.sinceSensorRead >= SENSOR_INTERVAL

\* variant of TkRefresh: the risk is evaluated before the sensors are read,
\* on the temperature of the refresh before
TkRefresh_EvaluatesBeforeRead(s, analogValue, pir) ==
  [readSensorsWithValidation(evaluateFireRisk(s), analogValue, pir)
     EXCEPT !.sinceSensorRead = 0]

TkRefresh(s, analogValue, pir) ==
  [evaluateFireRisk(readSensorsWithValidation(s, analogValue, pir))
     EXCEPT !.sinceSensorRead = 0]

TkLog(s) ==
  IF s.sinceStatusLog >= STATUS_LOG_INTERVAL
  THEN [Emit(s, "system status") EXCEPT !.sinceStatusLog = 0]
  ELSE s

\* =========================================== fire_detection_system.ino.ino
TEMP_WARN == 50
TEMP_DANGER_dht == 60
\* const unsigned int MAX_TEMP = 100; const unsigned int MIN_TEMP = -20;
\* unsigned int has 16 bits on the Arduino Uno
MAX_TEMP == UInt(100)
MIN_TEMP == UInt(-20)
SENSOR_TIME == 1000
LED_SLOW == 1000
LED_FAST == 200
BUZZ_TIME == 2000
DATA_CHECK_INTERVAL == 5000
LOG_INTERVAL == 3000

\* A temperature in degrees in the unit of the DHT22 (tenths of a degree).
Tenths(c) == c * 10

\* the globals after setup(), at the first pass of loop()
DhtInit ==
  [riskLevel |-> NORMAL,
   sysMode |-> AUTO_MODE,
   currentTemp |-> Tenths(25),
   demoTemp |-> Tenths(25),
   lastValidTemp |-> Tenths(25),
   motion |-> FALSE,
   demoMotion |-> FALSE,
   suppressed |-> FALSE,
   sensorErrorCount |-> 0,
   invalidCommandCount |-> 0,
   \* now - lastSensor, ... : setup() ends with delay(2000)
   sinceSensor |-> SENSOR_TIME,
   sinceDataCheck |-> 2000,
   sinceLed |-> LED_SLOW,
   sinceBuzz |-> BUZZ_TIME,
   sinceLog |-> 2000,
   \* millis() - now: the time spent inside this pass of loop()
   sinceLoopStart |-> 0,
   ledState |-> FALSE,
   buzzState |-> FALSE,
   readings |-> 0,
   warnings |-> 0,
   dangers |-> 0,
   pins |-> [p \in Pins |-> p = "LED_GREEN"],
   serial |-> <<>>]

\* isnan(temp) || temp < MIN_TEMP || temp > MAX_TEMP
\* temp: [nan |-> BOOLEAN, tenths |-> Int], what dht.readTemperature() returns
InvalidSensorData(temp) ==
  temp.nan \/ temp.tenths < Tenths(MIN_TEMP) \/ temp.tenths > Tenths(MAX_TEMP)

readSensorsSecure(s, temp, pir) ==
  LET s1 == [s EXCEPT !.readings = UInt(@ + 1)]
  IN IF s1.sysMode = 1
     THEN [s1 EXCEPT !.currentTemp = s1.demoTemp, !.motion = s1.demoMotion]
     ELSE
       LET r == IF InvalidSensorData(temp)
                THEN LET e == Emit([s1 EXCEPT !.sensorErrorCount = UInt(@ + 1),
                                              !.currentTemp = s1.lastValidTemp],
                                   "SECURITY: invalid sensor data")
                     IN IF e.sensorErrorCount > 5
                        THEN [Emit(e, "SECURITY: entering safety mode")
                                EXCEPT !.riskLevel = 1]
                        ELSE e
                ELSE [s1 EXCEPT !.currentTemp = temp.tenths,
                                !.lastValidTemp = temp.tenths,
                                !.sensorErrorCount = 0]
       IN [r EXCEPT !.motion = pir]

validateSystemIntegrity(s) ==
  LET s1 == IF s.sensorErrorCount > 10
            THEN Emit(s, "SECURITY ALERT: possible sensor tampering")
            ELSE s
      s2 == IF s1.invalidCommandCount > 5
            THEN [Emit(s1, "SECURITY ALERT: multiple invalid commands")
                    EXCEPT !.invalidCommandCount = 0]
            ELSE s1
  IN IF s2.riskLevel > 2
     THEN [Emit(s2, "SECURITY: state corruption") EXCEPT !.riskLevel = 0]
     ELSE s2

checkRisk(s) ==
  LET oldRisk == s.riskLevel
  IN IF s.currentTemp >= Tenths(TEMP_DANGER_dht)
     THEN LET d == [s EXCEPT !.riskLevel = 2]
          IN IF oldRisk # 2
             THEN Emit([d EXCEPT !.dangers = UInt(@ + 1)], "DANGER ACTIVATED")
             ELSE d
     ELSE IF s.currentTemp >= Tenths(TEMP_WARN)
     THEN LET w == [s EXCEPT !.riskLevel = 1]
          IN IF oldRisk # 1
             THEN Emit([w EXCEPT !.warnings = UInt(@ + 1)], "WARNING ACTIVATED")
             ELSE w
     ELSE LET n == [s EXCEPT !.riskLevel = 0]
          IN IF oldRisk # 0 THEN Emit(n, "NORMAL RESTORED") ELSE n

updateLeds(s) ==
  CASE s.riskLevel = 0 ->
         digitalWrite(digitalWrite(digitalWrite(s, "LED_GREEN", HIGH),
                                   "LED_YELLOW", LOW), "LED_RED", LOW)
    [] s.riskLevel = 1 ->
         IF s.sinceLed >= LED_SLOW
         THEN LET b == [s EXCEPT !.ledState = ~@]
              IN [digitalWrite(digitalWrite(digitalWrite(b, "LED_GREEN", LOW),
                                   "LED_YELLOW", b.ledState), "LED_RED", LOW)
                    EXCEPT !.sinceLed = 0]
         ELSE s
    [] s.riskLevel = 2 ->
         IF s.sinceLed >= LED_FAST
         THEN LET b == [s EXCEPT !.ledState = ~@]
              IN [digitalWrite(digitalWrite(digitalWrite(b, "LED_GREEN", LOW),
                                   "LED_YELLOW", LOW), "LED_RED", b.ledState)
                    EXCEPT !.sinceLed = 0]
         ELSE s
    [] OTHER -> s

updateBuzzer(s) ==
  CASE s.riskLevel = 0 -> digitalWrite(s, "BUZZER", LOW)
    [] s.riskLevel = 1 ->
         IF s.sinceBuzz >= BUZZ_TIME
         THEN LET b == [s EXCEPT !.buzzState = ~@]
              IN [digitalWrite(b, "BUZZER", b.buzzState) EXCEPT !.sinceBuzz = 0]
         ELSE s
    [] s.riskLevel = 2 -> digitalWrite(s, "BUZZER", HIGH)
    [] OTHER -> s

validateSuppressionCommand_dht(s) ==
  s.currentTemp >= Tenths(TEMP_DANGER_dht) /\ s.readings > 5

\* checkSuppression: does the suppression sequence start in this pass?
SuppressionStarts_dht(s) ==
  s.riskLevel = 2 /\ ~s.suppressed /\ validateSuppressionCommand_dht(s)

\* checkSuppression, when the sequence does not start
SuppressionSkipped_dht(s) ==
  IF s.riskLevel = 2 /\ ~s.suppressed
  THEN Emit(s, "SECURITY: suppression validation failed")
  ELSE s

\* activateSuppression up to the latch being set
DeploySuppression_dht(s) ==
  [digitalWrite(Emit(s, "FIRE SUPPRESSION ACTIVATED"), "RELAY", HIGH)
     EXCEPT !.suppressed = TRUE]

\* activateSuppression from the flash to the end: 3 flashes, delay(2000),
\* relay low
CompleteSuppression_dht(s) ==
  LET f == FlashAllLeds(FlashAllLeds(FlashAllLeds(s)))
      h == [f EXCEPT !.sinceLoopStart = @ + 2000]
  IN Emit(digitalWrite(h, "RELAY", LOW), "suppression completed")

activateSuppression(s) == CompleteSuppression_dht(DeploySuppression_dht(s))

validateTestCommand(s) == s.readings > 2

resetSystemSecure_dht(s) ==
  LET s1 == [Emit(s, "SYSTEM RESET") EXCEPT
               !.riskLevel = 0,
               !.sysMode = 0,
               !.suppressed = FALSE,
               !.demoTemp = Tenths(25),
               !.demoMotion = FALSE,
               !.sensorErrorCount = 0,
               !.invalidCommandCount = 0]
  IN digitalWrite(digitalWrite(digitalWrite(digitalWrite(digitalWrite(
       s1, "RELAY", LOW), "BUZZER", LOW), "LED_RED", LOW),
       "LED_YELLOW", LOW), "LED_GREEN", HIGH)

\* TEST_NORMAL / TEST_WARNING / TEST_DANGER
TestCommand(s, degrees) ==
  IF validateTestCommand(s)
  THEN Emit([s EXCEPT !.sysMode = 1, !.demoTemp = Tenths(degrees)],
            "demo temperature [AUTHENTICATED]")
  ELSE Emit(s, "SECURITY: test command validation failed")

\* handleSecureCommands on the trimmed, upper case line
ProcessCommand_dht(s, cmd) ==
  IF Len(cmd) > 20 \/ Len(cmd) < 1
  THEN Emit([s EXCEPT !.invalidCommandCount = UInt(@ + 1)],
            "SECURITY: invalid command length")
  ELSE CASE cmd = K_HELP -> Emit(s, "help")
         [] cmd = K_STATUS -> Emit(s, "status")
         [] cmd = K_TEST_NORMAL -> TestCommand(s, 25)
         [] cmd = K_TEST_WARNING -> TestCommand(s, 55)
         [] cmd = K_TEST_DANGER -> TestCommand(s, 70)
         [] cmd = K_MOTION -> Emit([s EXCEPT !.demoMotion = ~@], "motion")
         [] cmd = K_RESET -> resetSystemSecure_dht(s)
         [] cmd = K_AUTO -> Emit([s EXCEPT !.sysMode = 0], "mode AUTO")
         [] cmd = K_DEMO -> Emit([s EXCEPT !.sysMode = 1], "mode DEMO")
         [] cmd = K_STATS -> Emit(s, "statistics")
         [] cmd = K_SECURITY -> Emit(s, "security status")
         [] OTHER -> Emit([s EXCEPT !.invalidCommandCount = UInt(@ + 1)],
                          "SECURITY: unknown command")

handleSecureCommands(s, rx) ==
  IF rx = <<>> THEN s ELSE ProcessCommand_dht(s, Normalized(rx[1]))

\* loop(): now = millis()
DhtAdvance(s, d) ==
  LET e == s.sinceLoopStart + d
  IN [s EXCEPT !.sinceSensor = Cap(@ + e, SENSOR_TIME),
               !.sinceDataCheck = Cap(@ + e, DATA_CHECK_INTERVAL),
               !.sinceLed = Cap(@ + e, LED_SLOW),
               !.sinceBuzz = Cap(@ + e, BUZZ_TIME),
               !.sinceLog = Cap(@ + e, LOG_INTERVAL),
               !.sinceLoopStart = 0]

DhtSensorsDue(s) == s.sinceSensor >= SENSOR_TIME

DhtRefresh(s, temp, pir) ==
  [checkRisk(readSensorsSecure(s, temp, pir)) EXCEPT !.sinceSensor = 0]

DhtDataCheck(s) ==
  IF s.sinceDataCheck >= DATA_CHECK_INTERVAL
  THEN [validateSystemIntegrity(s) EXCEPT !.sinceDataCheck = 0]
  ELSE s

DhtLog(s) ==
  IF s.sinceLog >= LOG_INTERVAL
  THEN [Emit(s, "status log") EXCEPT !.sinceLog = 0]
  ELSE s

\* ============================================================ environments
\* What a run of the model can be fed: the time a pass of loop() takes (ms),
\* the values the sensors deliver, the lines the operator sends, and how many
\* sensor refreshes and lines a run has at most (firstReading: the reading
\* count the run begins with, 0 when it begins after setup()).
\*
\* analogRead(TMP36_PIN): 81 -> -10.4 (rejected), 153 -> 24.8, 205 -> 50.2,
\* 226 -> 60.5, 277 -> 85.4 (rejected).
\* dht.readTemperature(): NaN or a number of tenths of a degree.
NaN == [nan |-> TRUE, tenths |-> 0]
Reading(tenths) == [nan |-> FALSE, tenths |-> tenths]

\* The DHT22 sketch waits for 2 readings more than part_000 before it lets
\* the suppression start (readings > 5 against totalSensorReadings > 3); its
\* runs are 2 refreshes longer.
Longer(sk, n) == IF sk = "dht22" THEN n + 2 ELSE n

\* every line, passes of loop() with and without a sensor refresh
MaxReadings == 4
MaxLines == 2

EnvAll(sk) ==
  [durations |-> {0, 1000},
   analog |-> {153, 226, 277},
   dht |-> {NaN, Reading(300)},
   pir |-> {FALSE},
   lines |-> AllLines,
   firstReading |-> 0,
   maxReadings |-> Longer(sk, MaxReadings),
   maxLines |-> MaxLines]

\* runs long enough for two Danger episodes
EpisodeReadings == 6
EpisodeLines == 3

EnvEpisodes(sk) ==
  [durations |-> {1000},
   analog |-> {153, 205, 226},
   dht |-> {Reading(300), Reading(700)},
   pir |-> {FALSE},
   lines |-> {L_test_normal, L_test_warning, L_test_danger, L_auto, L_motion},
   firstReading |-> 0,
   maxReadings |-> Longer(sk, EpisodeReadings),
   maxLines |-> EpisodeLines]

\* runs of rejected and accepted readings
SensorReadings == 6
SensorLines == 1

EnvSensor(sk) ==
  [durations |-> {1000},
   analog |-> {81, 153, 226, 277},
   dht |-> {NaN, Reading(300), Reading(1200)},
   pir |-> {FALSE, TRUE},
   lines |-> {L_demo, L_auto, L_reset, L_test_danger},
   firstReading |-> 0,
   maxReadings |-> SensorReadings,
   maxLines |-> SensorLines]

\* a sensor that fails for longer than sensorErrorCount (a byte) can count:
\* 277 is rejected, 226 is accepted and reads 60.5
FaultyReadings == 257

EnvFaulty(sk) ==
  [durations |-> {1000},
   analog |-> {226, 277},
   dht |-> {NaN},
   pir |-> {FALSE},
   lines |-> {},
   firstReading |-> 0,
   maxReadings |-> FaultyReadings,
   maxLines |-> 0]

\* an operator who sends more malformed lines than invalidCommandCount (a
\* byte) can count, one line in each pass of loop()
FloodReadings == 256
FloodLines == 256

EnvFlood(sk) ==
  [durations |-> {1000},
   analog |-> {226},
   dht |-> {NaN},
   pir |-> {FALSE},
   lines |-> {L_empty},
   firstReading |-> 0,
   maxReadings |-> FloodReadings,
   maxLines |-> FloodLines]

\* passes of loop() 200 ms apart, so that the LEDs toggle between two sensor
\* refreshes; Warning and Danger readings and the TEST_ commands
RenderReadings == 4
RenderLines == 2

EnvRender(sk) ==
  [durations |-> {200, 1000},
   analog |-> {205, 226},
   dht |-> {NaN},
   pir |-> {FALSE},
   lines |-> {L_test_warning, L_test_danger},
   firstReading |-> 0,
   maxReadings |-> Longer(sk, RenderReadings),
   maxLines |-> RenderLines]

\* passes of loop() 200 or 1000 ms apart, long enough at one level for the
\* buzzer to toggle twice (2000 ms); Warning and Danger by readings in
\* part_000, by one TEST_ command in the DHT22 sketch
BlinkReadings == 4
BlinkLines == 1

EnvBlink(sk) ==
  [durations |-> {200, 1000},
   analog |-> {205, 226},
   dht |-> {NaN},
   pir |-> {FALSE},
   lines |-> {L_test_warning, L_test_danger},
   firstReading |-> 0,
   maxReadings |-> Longer(sk, BlinkReadings),
   maxLines |-> BlinkLines]

\* the whole range of analogRead(): 0 -> -50.0 and 1023 -> 450.0 degrees,
\* the last values outside the valid range (81 -> -10.4, 277 -> 85.4) and
\* the first inside it (82 -> -9.9, 276 -> 84.9), with the commands that
\* set the injected temperature and the mode
RangeReadings == 4
RangeLines == 1

EnvRange(sk) ==
  [durations |-> {1000},
   analog |-> {0, 81, 82, 153, 276, 277, 1023},
   dht |-> {NaN},
   pir |-> {FALSE},
   lines |-> {L_test_normal, L_test_warning, L_test_danger, L_demo, L_auto,
              L_reset},
   firstReading |-> 0,
   maxReadings |-> RangeReadings,
   maxLines |-> RangeLines]

\* passes of loop() 500 or 1000 ms apart; accepted and rejected readings, a
\* sensor that fails 5 times in a row; accepted, empty and unknown lines
LiveReadings == 5
LiveLines == 2

EnvLive(sk) ==
  [durations |-> {500, 1000},
   analog |-> {226, 277},
   dht |-> {NaN, Reading(300)},
   pir |-> {FALSE},
   lines |-> {L_test_danger, L_empty, L_unknown},
   firstReading |-> 0,
   maxReadings |-> Longer(sk, LiveReadings),
   maxLines |-> LiveLines]

\* a run that begins after 18 hours of quiet operation, at the start of pass
\* 65533 of loop(): totalSensorReadings (unsigned int, 16 bits) is 3 counts
\* from its largest value
LongRunPasses == 21844
LongRunReadings == 6
LongRunLines == 1

EnvLongRun(sk) ==
  [durations |-> {1000},
   analog |-> {153, 226},
   dht |-> {NaN},
   pir |-> {FALSE},
   lines |-> {L_reset, L_test_danger},
   firstReading |-> UInt(3 * LongRunPasses),
   maxReadings |-> LongRunReadings,
   maxLines |-> LongRunLines]

\* the PIR sensor and the MOTION command: presence read from the hardware in
\* Auto mode and injected in Demo mode, at Normal, Warning and Danger
PresenceReadings == 4
PresenceLines == 2

EnvPresence(sk) ==
  [durations |-> {1000},
   analog |-> {153, 205, 226},
   dht |-> {NaN},
   pir |-> {FALSE, TRUE},
   lines |-> {L_motion, L_test_warning, L_auto},
   firstReading |-> 0,
   maxReadings |-> PresenceReadings,
   maxLines |-> PresenceLines]

\* =================================================================== state
VARIABLES
  sketch,   \* which sketch runs: "part_000" or "dht22"
  env,      \* the environment of the run
  tk,       \* the globals of part_000
  dht,      \* the globals of fire_detection_system.ino.ino
  pc,       \* the statement of loop() that runs next
  raw,      \* the sensor values read in this pass: <<>> when none was due
  line,     \* the serial lines read in this pass: <<>> when none was waiting
  sent,     \* the number of lines the operator has sent so far
  hist      \* what the run has done so far (history, read by no action)

vars == <<sketch, env, tk, dht, pc, raw, line, sent, hist>>

Quiet(s) == [s EXCEPT !.serial = <<>>]

\* ----------------------------------------------------------------- history
\* fired         suppression sequences started since the level was last Normal
\* entries       entries into Danger since the level was last Normal
\* lastAccepted  the last hardware reading inside the valid range
\* rejected      hardware readings rejected in a row (a Demo refresh, an
\*               accepted reading and RESET end the row)
\* okBefore      part_000: systemIntegrityOK before the first of that row
\* healed        part_000: the length of the row of rejections that the
\*               refresh of this pass ended by an accepted reading
\* test          degrees of the TEST_ command accepted last, 0 when another
\*               line came after it or none was accepted
\* pending       part_000: TEST_DANGER was accepted with the latch clear, no
\*               line came after it and the suppression sequence has not
\*               started since
\* hardware      part_000: a refresh has read the TMP36 (a refresh in Auto mode)
\* toggles       the toggles of the blink states made by the render step where
\*               it is applied alone (SpecTwice)
\* ledAge        ms since the LED update last toggled the blink state, counted
\*               up to the longest LED period (1000); at that value when
\*               nothing has toggled since setup()
\* buzzerAge     ms since the Warning branch of the buzzer update last
\*               toggled the buzzer, counted up to its period (2000)
HistInit(sk) ==
  [fired |-> 0,
   entries |-> 0,
   lastAccepted |-> IF sk = "dht22" THEN Tenths(25) ELSE Deg(25),
   rejected |-> 0,
   okBefore |-> TRUE,
   healed |-> 0,
   test |-> 0,
   pending |-> FALSE,
   hardware |-> FALSE,
   toggles |-> 0,
   ledAge |-> LED_SLOW_BLINK,
   buzzerAge |-> BUZZER_BEEP_INTERVAL]

\* e ms have passed on the clock that millis() reads
Aged(h, e) ==
  [h EXCEPT !.ledAge = Cap(@ + e, LED_SLOW_BLINK),
            !.buzzerAge = Cap(@ + e, BUZZER_BEEP_INTERVAL)]

\* the LED update of this pass took the blink state from before to after
SawLeds(h, before, after) ==
  IF before # after THEN [h EXCEPT !.ledAge = 0] ELSE h

\* the buzzer update of this pass, at the given level, took the beep state
\* from before to after
SawBuzzer(h, level, before, after) ==
  IF level = WARNING /\ before # after THEN [h EXCEPT !.buzzerAge = 0] ELSE h

\* the level seen after a step that began at level before
Settle(h, before, level) ==
  IF level = NORMAL THEN [h EXCEPT !.fired = 0, !.entries = 0]
  ELSE IF level = DANGER /\ before # DANGER THEN [h EXCEPT !.entries = @ + 1]
  ELSE h

\* part_000, Auto mode: is the reading of analogValue inside -10 .. 85 degrees?
\* (analogValue * 5/1023 - 0.5) * 100 in -10 .. 85
TkInRange(a) ==
  500 * a >= 1023 * (50 + TEMP_MIN_VALID) /\ 500 * a <= 1023 * (50 + TEMP_MAX_VALID)

\* a refresh of part_000 from state s with analogRead() = a
TkSawRefresh(h, s, a) ==
  IF s.systemMode = DEMO_MODE THEN [h EXCEPT !.rejected = 0, !.healed = 0]
  ELSE IF TkInRange(a)
       THEN [h EXCEPT !.lastAccepted = 500 * a - 1023 * 50, !.rejected = 0,
                      !.healed = h.rejected, !.hardware = TRUE]
       ELSE [h EXCEPT !.rejected = @ + 1, !.healed = 0, !.hardware = TRUE,
                      !.okBefore = IF h.rejected = 0 THEN s.systemIntegrityOK ELSE @]

\* the warm-up floor of the TEST_ commands
TestFloor(sk) == IF sk = "dht22" THEN 2 ELSE 1

TestDegrees(cmd) ==
  CASE cmd = K_TEST_NORMAL -> 25
    [] cmd = K_TEST_WARNING -> 55
    [] cmd = K_TEST_DANGER -> 70
    [] OTHER -> 0

\* the lines rx read when the reading count was n
SawLines(h, sk, rx, n) ==
  IF rx = <<>> THEN h
  ELSE LET cmd == Normalized(rx[1])
       IN [h EXCEPT !.test = IF n > TestFloor(sk) THEN TestDegrees(cmd) ELSE 0,
                    !.rejected = IF cmd = K_RESET THEN 0 ELSE @]

\* part_000: the lines rx read in state s
TkSawLines(h, s, rx) ==
  IF rx = <<>> THEN h
  ELSE [SawLines(h, "part_000", rx, s.totalSensorReadings) EXCEPT
          !.pending = /\ Normalized(rx[1]) = K_TEST_DANGER
                      /\ s.totalSensorReadings > TestFloor("part_000")
                      /\ ~s.suppressionActivated]

Start(sketches, E(_)) ==
  /\ sketch \in sketches
  /\ env = E(sketch)
  /\ tk = TkInit
  /\ dht = DhtInit
  /\ pc = "sensors"
  /\ raw = <<>>
  /\ line = <<>>
  /\ sent = 0
  /\ hist = HistInit(sketch)

Init == Start({"part_000", "dht22"}, EnvAll)

\* ---------------------------------------------------------- part_000 loop()
TkSensors ==
  /\ sketch = "part_000" /\ pc = "sensors"
  /\ \E d \in env.durations :
       LET s == TkAdvance(Quiet(tk), d)
       IN IF TkSensorsDue(s)
          THEN /\ UInt(s.totalSensorReadings - env.firstReading) < env.maxReadings
               /\ \E a \in env.analog, pir \in env.pir :
                    /\ tk' = TkRefresh(s, a, pir)
                    /\ raw' = <<[analogValue |-> a, pir |-> pir]>>
                    /\ hist' = Settle(TkSawRefresh(Aged(hist, tk.sinceLoopStart + d),
                                                    s, a),
                                       tk.currentRiskLevel, tk'.currentRiskLevel)
          ELSE /\ tk' = s /\ raw' = <<>>
               /\ hist' = Aged(hist, tk.sinceLoopStart + d)
  /\ pc' = "leds"
  /\ line' = <<>>
  /\ UNCHANGED <<sketch, env, dht, sent>>

TkLeds ==
  /\ sketch = "part_000" /\ pc = "leds"
  /\ tk' = updateLEDIndicators(Quiet(tk))
  /\ pc' = "buzzer"
  /\ hist' = SawLeds(hist, tk.ledBlinkState, tk'.ledBlinkState)
  /\ UNCHANGED <<sketch, env, dht, raw, line, sent>>

TkBuzzer ==
  /\ sketch = "part_000" /\ pc = "buzzer"
  /\ tk' = updateBuzzerAlerts(Quiet(tk))
  /\ pc' = "suppression"
  /\ hist' = SawBuzzer(hist, tk.currentRiskLevel,
                       tk.buzzerBeepState, tk'.buzzerBeepState)
  /\ UNCHANGED <<sketch, env, dht, raw, line, sent>>

TkSuppression ==
  /\ sketch = "part_000" /\ pc = "suppression"
  /\ IF SuppressionStarts(tk)
     THEN /\ tk' = DeploySuppression(Quiet(tk))
          /\ pc' = "deployed"
          /\ hist' = [hist EXCEPT !.fired = @ + 1, !.pending = FALSE]
     ELSE /\ tk' = SuppressionSkipped(Quiet(tk))
          /\ pc' = "commands"
          /\ hist' = hist
  /\ UNCHANGED <<sketch, env, dht, raw, line, sent>>

TkDeployed ==
  /\ sketch = "part_000" /\ pc = "deployed"
  /\ tk' = CompleteSuppression(tk)
  /\ pc' = "commands"
  /\ UNCHANGED <<sketch, env, dht, raw, line, sent, hist>>

TkCommands ==
  /\ sketch = "part_000" /\ pc = "commands"
  /\ \E rx \in {<<>>} \cup {<<l>> : l \in env.lines} :
       /\ rx # <<>> => sent < env.maxLines
       /\ sent' = sent + Len(rx)
       /\ tk' = handleSerialCommands(Quiet(tk), rx)
       /\ line' = rx
       /\ hist' = Settle(TkSawLines(hist, tk, rx),
                         tk.currentRiskLevel, tk'.currentRiskLevel)
  /\ pc' = "log"
  /\ UNCHANGED <<sketch, env, dht, raw>>

TkStatusLog ==
  /\ sketch = "part_000" /\ pc = "log"
  /\ tk' = TkLog(Quiet(tk))
  /\ pc' = "sensors"
  /\ raw' = <<>>
  /\ line' = <<>>
  /\ UNCHANGED <<sketch, env, dht, sent, hist>>

NextTk ==
  \/ TkSensors
  \/ TkLeds
  \/ TkBuzzer
  \/ TkSuppression
  \/ TkDeployed
  \/ TkCommands
  \/ TkStatusLog

\* ------------------------------------- fire_detection_system.ino.ino loop()
DhtSensors ==
  /\ sketch = "dht22" /\ pc = "sensors"
  /\ \E d \in env.durations :
       LET s == DhtAdvance(Quiet(dht), d)
       IN IF DhtSensorsDue(s)
          THEN /\ s.readings < env.maxReadings
               /\ \E t \in env.dht, pir \in env.pir :
                    /\ dht' = DhtRefresh(s, t, pir)
                    /\ raw' = <<[temp |-> t, pir |-> pir]>>
                    /\ hist' = Settle(Aged(hist, dht.sinceLoopStart + d),
                                       dht.riskLevel, dht'.riskLevel)
          ELSE /\ dht' = s /\ raw' = <<>>
               /\ hist' = Aged(hist, dht.sinceLoopStart + d)
  /\ pc' = "integrity"
  /\ line' = <<>>
  /\ UNCHANGED <<sketch, env, tk, sent>>

DhtIntegrity ==
  /\ sketch = "dht22" /\ pc = "integrity"
  /\ dht' = DhtDataCheck(Quiet(dht))
  /\ pc' = "leds"
  /\ UNCHANGED <<sketch, env, tk, raw, line, sent, hist>>

DhtLeds ==
  /\ sketch = "dht22" /\ pc = "leds"
  /\ dht' = updateLeds(Quiet(dht))
  /\ pc' = "buzzer"
  /\ hist' = SawLeds(hist, dht.ledState, dht'.ledState)
  /\ UNCHANGED <<sketch, env, tk, raw, line, sent>>

DhtBuzzer ==
  /\ sketch = "dht22" /\ pc = "buzzer"
  /\ dht' = updateBuzzer(Quiet(dht))
  /\ pc' = "suppression"
  /\ hist' = SawBuzzer(hist, dht.riskLevel, dht.buzzState, dht'.buzzState)
  /\ UNCHANGED <<sketch, env, tk, raw, line, sent>>

DhtSuppression ==
  /\ sketch = "dht22" /\ pc = "suppression"
  /\ IF SuppressionStarts_dht(dht)
     THEN /\ dht' = DeploySuppression_dht(Quiet(dht))
          /\ pc' = "deployed"
          /\ hist' = [hist EXCEPT !.fired = @ + 1]
     ELSE /\ dht' = SuppressionSkipped_dht(Quiet(dht))
          /\ pc' = "commands"
          /\ hist' = hist
  /\ UNCHANGED <<sketch, env, tk, raw, line, sent>>

DhtDeployed ==
  /\ sketch = "dht22" /\ pc = "deployed"
  /\ dht' = CompleteSuppression_dht(dht)
  /\ pc' = "commands"
  /\ UNCHANGED <<sketch, env, tk, raw, line, sent, hist>>

DhtCommands ==
  /\ sketch = "dht22" /\ pc = "commands"
  /\ \E rx \in {<<>>} \cup {<<l>> : l \in env.lines} :
       /\ rx # <<>> => sent < env.maxLines
       /\ sent' = sent + Len(rx)
       /\ dht' = handleSecureCommands(Quiet(dht), rx)
       /\ line' = rx
       /\ hist' = Settle(SawLines(hist, sketch, rx, dht.readings),
                         dht.riskLevel, dht'.riskLevel)
  /\ pc' = "log"
  /\ UNCHANGED <<sketch, env, tk, raw>>

DhtStatusLog ==
  /\ sketch = "dht22" /\ pc = "log"
  /\ dht' = DhtLog(Quiet(dht))
  /\ pc' = "sensors"
  /\ raw' = <<>>
  /\ line' = <<>>
  /\ UNCHANGED <<sketch, env, tk, sent, hist>>

NextDht ==
  \/ DhtSensors
  \/ DhtIntegrity
  \/ DhtLeds
  \/ DhtBuzzer
  \/ DhtSuppression
  \/ DhtDeployed
  \/ DhtCommands
  \/ DhtStatusLog

Next == NextTk \/ NextDht

Spec == Init /\ [][Next]_vars

InitEpisodes == Start({"part_000", "dht22"}, EnvEpisodes)
SpecEpisodes == InitEpisodes /\ [][Next]_vars

InitSensor == Start({"part_000"}, EnvSensor)
SpecSensor == InitSensor /\ [][NextTk]_vars

\* ================================================================== claims
InitFaulty == Start({"part_000"}, EnvFaulty)
SpecFaulty == InitFaulty /\ [][NextTk]_vars

InitFlood == Start({"part_000"}, EnvFlood)
SpecFlood == InitFlood /\ [][NextTk]_vars

InitRender == Start({"part_000", "dht22"}, EnvRender)
SpecRender == InitRender /\ [][Next]_vars

\* loop() is called again as soon as it returns (Arduino main()), and every
\* statement of it returns: a step that can be taken is taken.
InitLive == Start({"part_000", "dht22"}, EnvLive)
SpecLive == InitLive /\ [][Next]_vars /\ WF_vars(Next)

InitBlink == Start({"part_000", "dht22"}, EnvBlink)
SpecBlink == InitBlink /\ [][Next]_vars

InitRange == Start({"part_000"}, EnvRange)
SpecRange == InitRange /\ [][NextTk]_vars

InitPresence == Start({"part_000"}, EnvPresence)
SpecPresence == InitPresence /\ [][NextTk]_vars

\* --------------------------------------------------------- after 18 hours
\* part_000 after passes of loop() 1000 ms apart that all read 24.8 degrees
\* (analogRead = 153) and no line: the level stays Normal, the LED and
\* buzzer timers stay saturated and the status log is printed in every third
\* pass, so the globals at the end of pass 3n are those at the end of pass 3
\* (2000 ms after the last status log) but for totalSensorReadings = 3n.
\* TkFirstPass: the first pass of loop() up to the suppression check.
TkFirstPass(a) ==
  Quiet(SuppressionSkipped(updateBuzzerAlerts(updateLEDIndicators(
    TkRefresh(TkAdvance(TkInit, 0), a, FALSE)))))

TkQuietPass ==
  TkLog(handleSerialCommands(TkFirstPass(153), <<>>))

InitLongRun ==
  /\ sketch = "part_000"
  /\ env = EnvLongRun(sketch)
  /\ tk = [TkQuietPass EXCEPT !.totalSensorReadings = env.firstReading]
  /\ dht = DhtInit
  /\ pc = "sensors"
  /\ raw = <<>>
  /\ line = <<>>
  /\ sent = 0
  /\ hist = TkSawRefresh(HistInit(sketch), TkInit, 153)

SpecLongRun == InitLongRun /\ [][NextTk]_vars

\* ---------------------------------------------- command processing alone
\* handleSerialCommands applied once, in the first pass of loop(), to every
\* value invalidCommandCount (a byte) can hold: the lines of a burst are read
\* one per pass, and a burst of empty lines takes the counter through all of
\* 0 .. 255 (SpecFlood).
InitCommand ==
  /\ sketch = "part_000"
  /\ env = EnvAll(sketch)
  /\ \E a \in env.analog, count \in 0..255 :
        tk = [TkFirstPass(a) EXCEPT !.invalidCommandCount = count]
  /\ dht = DhtInit
  /\ pc = "commands"
  /\ raw = <<>>
  /\ line = <<>>
  /\ sent = 0
  /\ hist = HistInit(sketch)

NextCommand == TkCommands

SpecCommand == InitCommand /\ [][NextCommand]_vars

\* ---------------------------------------------------- render step alone
\* The render step (LED update, then buzzer update) applied twice with no
\* time between the two runs, from every level, every pair of blink states,
\* the LEDs and the buzzer as a pass of loop() can leave them, and times
\* since the last toggles around the blink periods.
TwiceSpread == 1

TwiceGaps(periods, longest) ==
  {0} \cup {Cap(p + k, longest) : p \in periods,
                                  k \in (0 - TwiceSpread)..TwiceSpread}

\* the LEDs a pass can leave lit: none or one of them
TwiceLit == {"", "LED_GREEN", "LED_YELLOW", "LED_RED"}

TwicePins(lit, buzzer) ==
  [p \in Pins |-> IF p = "BUZZER" THEN buzzer ELSE p = lit]

InitTwice ==
  /\ sketch \in {"part_000", "dht22"}
  /\ env = EnvRender(sketch)
  /\ \E level \in {NORMAL, WARNING, DANGER}, led \in BOOLEAN, beep \in BOOLEAN,
        lit \in TwiceLit, buzzer \in BOOLEAN,
        sinceLed \in TwiceGaps({LED_FAST_BLINK, LED_SLOW_BLINK}, LED_SLOW_BLINK),
        sinceBuzzer \in TwiceGaps({BUZZER_BEEP_INTERVAL}, BUZZER_BEEP_INTERVAL) :
        /\ tk = IF sketch = "part_000"
                THEN [TkInit EXCEPT !.currentRiskLevel = level,
                                    !.ledBlinkState = led,
                                    !.buzzerBeepState = beep,
                                    !.sinceLedUpdate = sinceLed,
                                    !.sinceBuzzerUpdate = sinceBuzzer,
                                    !.pins = TwicePins(lit, buzzer)]
                ELSE TkInit
        /\ dht = IF sketch = "dht22"
                 THEN [DhtInit EXCEPT !.riskLevel = level,
                                      !.ledState = led,
                                      !.buzzState = beep,
                                      !.sinceLed = sinceLed,
                                      !.sinceBuzz = sinceBuzzer,
                                      !.pins = TwicePins(lit, buzzer)]
                 ELSE DhtInit
  /\ pc = "render"
  /\ raw = <<>>
  /\ line = <<>>
  /\ sent = 0
  /\ hist = HistInit(sketch)

Toggled(before, after) == IF before # after THEN 1 ELSE 0

TkRender ==
  /\ sketch = "part_000" /\ pc \in {"render", "rendered"}
  /\ tk' = updateBuzzerAlerts(updateLEDIndicators(Quiet(tk)))
  /\ pc' = IF pc = "render" THEN "rendered" ELSE "rendered twice"
  /\ hist' = [hist EXCEPT !.toggles =
                 @ + Toggled(tk.ledBlinkState, tk'.ledBlinkState)
                   + Toggled(tk.buzzerBeepState, tk'.buzzerBeepState)]
  /\ UNCHANGED <<sketch, env, dht, raw, line, sent>>

DhtRender ==
  /\ sketch = "dht22" /\ pc \in {"render", "rendered"}
  /\ dht' = updateBuzzer(updateLeds(Quiet(dht)))
  /\ pc' = IF pc = "render" THEN "rendered" ELSE "rendered twice"
  /\ hist' = [hist EXCEPT !.toggles =
                 @ + Toggled(dht.ledState, dht'.ledState)
                   + Toggled(dht.buzzState, dht'.buzzState)]
  /\ UNCHANGED <<sketch, env, tk, raw, line, sent>>

NextTwice == TkRender \/ DhtRender

SpecTwice == InitTwice /\ [][NextTwice]_vars

\* ------------------------------------------------- risk evaluation alone
\* evaluateFireRisk / checkRisk applied once to a state with any previous
\* level, any latch and any presence, at temperatures around the thresholds
\* and at the ends of the valid range.
EvalSpread == 1

EvalDegrees == {TEMP_MIN_VALID, 25, TEMP_WARNING, TEMP_DANGER, TEMP_MAX_VALID}

EvalTemperatures(sk) ==
  {(IF sk = "dht22" THEN Tenths(c) ELSE Deg(c)) + k :
     c \in EvalDegrees, k \in (0 - EvalSpread)..EvalSpread}

InitEval ==
  /\ sketch \in {"part_000", "dht22"}
  /\ env = EnvAll(sketch)
  /\ \E t \in EvalTemperatures(sketch), level \in {NORMAL, WARNING, DANGER},
        latch \in BOOLEAN, motion \in BOOLEAN :
        /\ tk = IF sketch = "part_000"
                THEN [TkInit EXCEPT !.currentTemperature = t,
                                    !.currentRiskLevel = level,
                                    !.suppressionActivated = latch,
                                    !.motionDetected = motion]
                ELSE TkInit
        /\ dht = IF sketch = "dht22"
                 THEN [DhtInit EXCEPT !.currentTemp = t,
                                      !.riskLevel = level,
                                      !.suppressed = latch,
                                      !.motion = motion]
                 ELSE DhtInit
  /\ pc = "evaluate"
  /\ raw = <<>>
  /\ line = <<>>
  /\ sent = 0
  /\ hist = HistInit(sketch)

TkEvaluate ==
  /\ sketch = "part_000" /\ pc = "evaluate"
  /\ tk' = evaluateFireRisk(Quiet(tk))
  /\ pc' = "evaluated"
  /\ UNCHANGED <<sketch, env, dht, raw, line, sent, hist>>

DhtEvaluate ==
  /\ sketch = "dht22" /\ pc = "evaluate"
  /\ dht' = checkRisk(Quiet(dht))
  /\ pc' = "evaluated"
  /\ UNCHANGED <<sketch, env, tk, raw, line, sent, hist>>

NextEval == TkEvaluate \/ DhtEvaluate

SpecEval == InitEval /\ [][NextEval]_vars

Said(s, msg) == \E i \in 1..Len(s.serial) : s.serial[i] = msg

\* C1: in both sketches the suppression sequence starts at most once between
\* two moments at which the risk level is Normal, also when the level goes
\* Danger -> Warning -> Danger in between.
C1_OncePerEpisode == hist.fired <= 1

\* the level has gone Danger -> Warning -> Danger after the sequence ran, and
\* the suppression check of this pass has not started it again
C1_Witness ==
  /\ sketch = "part_000" /\ pc = "commands"
  /\ tk.currentRiskLevel = DANGER /\ validateSuppressionCommand(tk)
  /\ hist.entries = 2 /\ hist.fired = 1
  /\ tk.warningActivations >= 1

\* C2: part_000: the suppression sequence starts only in a state where the
\* level is DANGER, the temperature is at least 60.0, more than 3 readings
\* were taken and systemIntegrityOK holds; where one of the four is false,
\* handleFireSuppression leaves the relay, the latch and
\* suppressionActivations as they were.
C2_StartsOnlyWhenAllFour ==
  [][(sketch = "part_000" /\ pc = "suppression") =>
       LET allFour == /\ tk.currentRiskLevel = DANGER
                      /\ tk.currentTemperature >= Deg(60)
                      /\ tk.totalSensorReadings > 3
                      /\ tk.systemIntegrityOK
       IN /\ pc' = "deployed" => allFour
          /\ ~allFour => /\ pc' = "commands"
                          /\ tk'.pins["RELAY"] = tk.pins["RELAY"]
                          /\ tk'.suppressionActivated = tk.suppressionActivated
                          /\ tk'.suppressionActivations = tk.suppressionActivations
     ]_vars

\* the level is DANGER, the temperature 70.0 and the count above 3, but the
\* integrity flag is false: handleFireSuppression has just refused
C2_Witness ==
  /\ sketch = "part_000" /\ pc = "commands"
  /\ Said(tk, "SECURITY: suppression validation failed")
  /\ tk.currentRiskLevel = DANGER
  /\ tk.currentTemperature >= Deg(60)
  /\ tk.totalSensorReadings > 3
  /\ ~tk.systemIntegrityOK
  /\ ~tk.suppressionActivated /\ ~tk.pins["RELAY"]

\* the level the thresholds give a temperature of t units, unit being the
\* number of units in one degree
RiskOf(t, unit) ==
  IF t < 50 * unit THEN NORMAL
  ELSE IF t < 60 * unit THEN WARNING
  ELSE DANGER

\* C3: in both sketches, right after a risk evaluation the level depends on
\* the effective temperature t alone, whatever the level was before: Normal
\* for t < 50, Warning for 50 <= t < 60, Danger for t >= 60; exactly 50 gives
\* Warning and exactly 60 gives Danger.
C3_LevelFollowsTemperature ==
  pc = "evaluated" =>
    /\ sketch = "part_000" => tk.currentRiskLevel = RiskOf(tk.currentTemperature, 1023)
    /\ sketch = "dht22" => dht.riskLevel = RiskOf(dht.currentTemp, 10)

\* evaluateFireRisk has just raised the level to Warning at exactly 50.0
C3_Witness ==
  /\ sketch = "part_000" /\ pc = "evaluated"
  /\ tk.currentTemperature = Deg(50)
  /\ tk.currentRiskLevel = WARNING
  /\ Said(tk, "WARNING LEVEL ACTIVATED")

C5_NormalClearsLatch ==
  (sketch = "dht22" /\ pc = "integrity" /\ raw # <<>> /\ dht.riskLevel = 0)
    => ~dht.suppressed

\* the second Danger episode of the DHT22 sketch: the level is Danger again
\* after a Normal, the warm-up is over, and checkSuppression has passed
\* without starting the sequence because the latch is still set
C5_SecondEpisodeBlocked ==
  /\ sketch = "dht22" /\ pc = "commands"
  /\ dht.riskLevel = 2 /\ dht.dangers = 2
  /\ validateSuppressionCommand_dht(dht)
  /\ hist.entries = 1 /\ hist.fired = 0
  /\ dht.suppressed

\* C6: part_000, Auto mode: a reading outside -10 .. 85 is rejected: the
\* effective temperature after the refresh is the last-known-good one (the
\* most recent accepted hardware reading, 25.0 before any), the
\* last-known-good temperature is unchanged and the consecutive-error counter
\* grows by exactly 1; an accepted reading becomes the effective and the
\* last-known-good temperature and sets the counter to 0.
C6_RejectedReadingKeepsLastGood ==
  [][(sketch = "part_000" /\ pc = "sensors" /\ raw' # <<>>
        /\ tk.systemMode = AUTO_MODE) =>
       LET reading == 500 * raw'[1].analogValue - 50 * 1023
       IN IF reading >= Deg(-10) /\ reading <= Deg(85)
          THEN /\ tk'.currentTemperature = reading
               /\ tk'.lastValidTemperature = reading
               /\ tk'.sensorErrorCount = 0
          ELSE /\ tk'.currentTemperature = hist.lastAccepted
               /\ tk'.lastValidTemperature = tk.lastValidTemperature
               /\ tk'.lastValidTemperature = hist.lastAccepted
               /\ tk'.sensorErrorCount = tk.sensorErrorCount + 1
     ]_vars

\* the 256th rejected reading in a row has taken the counter from 255 to 0
C6_CounterWrapped ==
  /\ sketch = "part_000" /\ pc = "leds" /\ raw # <<>>
  /\ hist.rejected = 256
  /\ tk.sensorErrorCount = 0
  /\ Said(tk, "invalid temperature reading")
  /\ ~tk.systemIntegrityOK

\* C7: part_000: starting from the integrity flag true, the flag is still
\* true after 1 to 4 rejected Auto-mode readings in a row and false at the
\* 5th; an accepted Auto-mode reading, after any number of rejections, leaves
\* the flag true and the error counter 0.
C7_FlagFallsAtFifthRejection ==
  [][(sketch = "part_000" /\ pc = "sensors" /\ raw' # <<>>
        /\ tk.systemMode = AUTO_MODE) =>
       LET reading == 500 * raw'[1].analogValue - 50 * 1023
       IN IF reading >= Deg(-10) /\ reading <= Deg(85)
          THEN tk'.systemIntegrityOK /\ tk'.sensorErrorCount = 0
          ELSE hist'.okBefore =>
                 /\ hist'.rejected \in 1..4 => tk'.systemIntegrityOK
                 /\ hist'.rejected = 5 => ~tk'.systemIntegrityOK
     ]_vars

\* an accepted reading has just ended a row of 5 rejections that began with
\* the flag true
C7_Witness ==
  /\ sketch = "part_000" /\ pc = "leds" /\ raw # <<>>
  /\ hist.healed = 5 /\ hist.okBefore
  /\ tk.systemIntegrityOK /\ tk.sensorErrorCount = 0
  /\ tk.totalSensorReadings = 6

\* the outputs after RESET: relay, buzzer, red and yellow low, green high
ResetOutputs(pins) ==
  /\ ~pins["RELAY"] /\ ~pins["BUZZER"]
  /\ ~pins["LED_RED"] /\ ~pins["LED_YELLOW"]
  /\ pins["LED_GREEN"]

\* C8: in both sketches the RESET command, from every reachable state, leaves
\* the level Normal, the mode Auto, the latch clear, the sensor error count
\* and the invalid-command count 0, the demo temperature 25.0, the demo
\* motion false, the relay, the buzzer, the red and the yellow LED low and
\* the green LED high; in part_000 also the integrity flag true.
C8_ResetRestoresDefaults ==
  [][(pc = "commands" /\ line' # <<>> /\ Normalized(line'[1]) = K_RESET) =>
       /\ sketch = "part_000" =>
            /\ tk'.currentRiskLevel = 0 /\ tk'.systemMode = 0
            /\ ~tk'.suppressionActivated
            /\ tk'.sensorErrorCount = 0 /\ tk'.invalidCommandCount = 0
            /\ tk'.demoTemperature = 25 * 1023 /\ ~tk'.demoMotion
            /\ ResetOutputs(tk'.pins)
            /\ tk'.systemIntegrityOK
       /\ sketch = "dht22" =>
            /\ dht'.riskLevel = 0 /\ dht'.sysMode = 0
            /\ ~dht'.suppressed
            /\ dht'.sensorErrorCount = 0 /\ dht'.invalidCommandCount = 0
            /\ dht'.demoTemp = 250 /\ ~dht'.demoMotion
            /\ ResetOutputs(dht'.pins)
     ]_vars

\* RESET, the second line of the run, has just been processed in the pass
\* in which the suppression sequence ran at 60 degrees or more
C8_Witness ==
  /\ sketch = "part_000" /\ pc = "log"
  /\ line # <<>> /\ Normalized(line[1]) = K_RESET
  /\ Said(tk, "SECURE SYSTEM RESET")
  /\ tk.currentTemperature >= Deg(60)
  /\ tk.suppressionActivations = 1
  /\ sent = 2
  /\ tk.currentRiskLevel = NORMAL /\ ~tk.suppressionActivated

IsTestCommand(l) ==
  Normalized(l) \in {K_TEST_NORMAL, K_TEST_WARNING, K_TEST_DANGER}

\* C9: in both sketches a TEST_NORMAL, TEST_WARNING or TEST_DANGER line (any
\* letter case, blanks around it) read while the reading count is at or
\* below the warm-up floor (part_000: 1, DHT22 sketch: 2) is rejected and
\* changes no state: mode, demo temperature, demo motion, risk level and
\* invalid-command count stay as they were.
C9_EarlyTestRejected ==
  [][(pc = "commands" /\ line' # <<>> /\ IsTestCommand(line'[1])) =>
       /\ (sketch = "part_000" /\ tk.totalSensorReadings <= 1) =>
            /\ tk'.systemMode = tk.systemMode
            /\ tk'.demoTemperature = tk.demoTemperature
            /\ tk'.demoMotion = tk.demoMotion
            /\ tk'.currentRiskLevel = tk.currentRiskLevel
            /\ tk'.invalidCommandCount = tk.invalidCommandCount
            /\ Quiet(tk') = Quiet(tk)
            /\ Said(tk', "SECURITY: demo command requires system initialization")
       /\ (sketch = "dht22" /\ dht.readings <= 2) =>
            /\ dht'.sysMode = dht.sysMode
            /\ dht'.demoTemp = dht.demoTemp
            /\ dht'.demoMotion = dht.demoMotion
            /\ dht'.riskLevel = dht.riskLevel
            /\ dht'.invalidCommandCount = dht.invalidCommandCount
            /\ Quiet(dht') = Quiet(dht)
            /\ Said(dht', "SECURITY: test command validation failed")
     ]_vars

\* part_000 has just refused " test_danger" after its first reading
C9_Witness ==
  /\ sketch = "part_000" /\ pc = "log"
  /\ line = <<L_test_danger>>
  /\ tk.totalSensorReadings = 1
  /\ Said(tk, "SECURITY: demo command requires system initialization")
  /\ tk.systemMode = AUTO_MODE /\ tk.demoTemperature = Deg(25)

\* C10: in both sketches a TEST_NORMAL / TEST_WARNING / TEST_DANGER line read
\* once the reading count is above the warm-up floor sets the mode to Demo
\* and the injected temperature to 25 / 55 / 70; while no other line
\* follows, a sensor refresh makes the effective temperature that value and
\* the level Normal / Warning / Danger.
C10_TestCommandTakesEffect ==
  [][/\ (pc = "commands" /\ line' # <<>> /\ IsTestCommand(line'[1])) =>
          LET degrees == TestDegrees(Normalized(line'[1]))
          IN /\ (sketch = "part_000" /\ tk.totalSensorReadings > 1) =>
                  tk'.systemMode = 1 /\ tk'.demoTemperature = degrees * 1023
             /\ (sketch = "dht22" /\ dht.readings > 2) =>
                  dht'.sysMode = 1 /\ dht'.demoTemp = degrees * 10
     /\ (pc = "sensors" /\ raw' # <<>> /\ hist.test # 0) =>
          LET level == CASE hist.test = 25 -> 0
                         [] hist.test = 55 -> 1
                         [] hist.test = 70 -> 2
          IN /\ sketch = "part_000" =>
                  /\ tk'.currentTemperature = hist.test * 1023
                  /\ tk'.currentRiskLevel = level
             /\ sketch = "dht22" =>
                  /\ dht'.currentTemp = hist.test * 10
                  /\ dht'.riskLevel = level
    ]_vars

\* the refresh after an accepted TEST_DANGER: 70.0 and Danger, in Demo mode
C10_Witness ==
  /\ sketch = "dht22" /\ pc = "integrity" /\ raw # <<>>
  /\ hist.test = 70
  /\ dht.sysMode = 1 /\ dht.currentTemp = 700 /\ dht.riskLevel = 2
  /\ Said(dht, "DANGER ACTIVATED")

\* C11: part_000: once TEST_DANGER is accepted with the latch clear and no
\* further line is sent, the suppression sequence runs, whatever the sensor
\* history before the command. The sequence can start only in the
\* suppression check of a pass; the warm-up floor aside, the first pass that
\* refreshes the sensors after the command is the one that must start it:
\* no such pass with more than 3 readings gets beyond its suppression check
\* with the command still unanswered.
C11_TestDangerFires ==
  ~(/\ sketch = "part_000" /\ pc = "commands"
    /\ hist.pending /\ raw # <<>>
    /\ tk.totalSensorReadings > 3)

\* TEST_DANGER was accepted after 5 rejected readings; the refresh that
\* followed gave 70.0 and Danger, and handleFireSuppression refused
C11_Refused ==
  /\ sketch = "part_000" /\ pc = "commands"
  /\ hist.pending /\ raw # <<>>
  /\ tk.systemMode = DEMO_MODE /\ tk.currentTemperature = Deg(70)
  /\ tk.currentRiskLevel = DANGER /\ tk.totalSensorReadings = 6
  /\ ~tk.systemIntegrityOK /\ tk.sensorErrorCount = 0
  /\ ~tk.suppressionActivated /\ tk.suppressionActivations = 0
  /\ Said(tk, "SECURITY: suppression validation failed")

\* C12: part_000, Auto mode: a refresh whose raw reading is accepted and at
\* least 60 leaves the level Danger, and when no command interferes and the
\* latch was clear the suppression sequence has run in this Danger episode
\* by the end of the suppression step of the pass in which such a refresh
\* finds totalSensorReadings above 3.
C12_HotReadingsFire ==
  (/\ sketch = "part_000" /\ raw # <<>>
   /\ pc \in {"leds", "buzzer", "suppression", "deployed", "commands"}
   /\ tk.systemMode = AUTO_MODE
   /\ 500 * raw[1].analogValue - 50 * 1023 >= 60 * 1023
   /\ 500 * raw[1].analogValue - 50 * 1023 <= 85 * 1023)
  => /\ tk.currentRiskLevel = 2
     /\ (pc = "commands" /\ tk.totalSensorReadings > 3)
          => tk.suppressionActivated /\ hist.fired = 1

\* an accepted reading of 60.5 after 5 rejected ones: the sequence has run
\* in the same pass
C12_Witness ==
  /\ sketch = "part_000" /\ pc = "commands"
  /\ raw # <<>> /\ raw[1].analogValue = 226
  /\ tk.systemMode = AUTO_MODE /\ hist.healed = 5
  /\ tk.totalSensorReadings = 6
  /\ tk.suppressionActivations = 1 /\ hist.fired = 1
  /\ Said(tk, "suppression cycle completed")

\* C13: DHT22 sketch, Auto mode: a reading t that is not NaN is accepted iff
\* -20 <= t <= 100; an accepted reading (30 for one) becomes the effective
\* and the last valid temperature and resets sensorErrorCount to 0.
C13_DocumentedRange ==
  [][(sketch = "dht22" /\ pc = "sensors" /\ raw' # <<>>
        /\ dht.sysMode = 0 /\ ~raw'[1].temp.nan) =>
       LET t == raw'[1].temp.tenths
           accepted == /\ dht'.currentTemp = t
                       /\ dht'.lastValidTemp = t
                       /\ dht'.sensorErrorCount = 0
       IN accepted <=> (t >= -200 /\ t <= 1000)
     ]_vars

\* a reading of 30.0 has just been rejected: the effective temperature is
\* still the initial 25.0 and the error count is 1
C13_ThirtyRejected ==
  /\ sketch = "dht22" /\ pc = "integrity"
  /\ raw # <<>> /\ raw[1].temp = Reading(300)
  /\ dht.sysMode = 0
  /\ Said(dht, "SECURITY: invalid sensor data")
  /\ dht.sensorErrorCount = 1
  /\ dht.currentTemp = 250 /\ dht.lastValidTemp = 250

\* C14: DHT22 sketch, Auto mode: while the sensor delivers readings of 60 or
\* more inside -20 .. 100, the level is Danger after each refresh, and once
\* readings > 5 the suppression sequence has run in this Danger episode by
\* the end of the suppression step of the pass.
C14_HotReadingsFire ==
  (/\ sketch = "dht22" /\ raw # <<>>
   /\ pc \in {"integrity", "leds", "buzzer", "suppression", "deployed", "commands"}
   /\ dht.sysMode = 0
   /\ ~raw[1].temp.nan
   /\ raw[1].temp.tenths >= 600 /\ raw[1].temp.tenths <= 1000)
  => /\ dht.riskLevel = 2
     /\ (pc = "commands" /\ dht.readings > 5)
          => dht.suppressed /\ hist.fired = 1

\* six readings of 70.0 in Auto mode: the level is Normal at 25.0 and the
\* relay has never been driven
C14_StaysNormal ==
  /\ sketch = "dht22" /\ pc = "commands"
  /\ raw # <<>> /\ raw[1].temp = Reading(700)
  /\ dht.sysMode = 0 /\ dht.readings = 6 /\ dht.sensorErrorCount = 6
  /\ dht.currentTemp = 250 /\ dht.riskLevel = 0
  /\ ~dht.suppressed /\ dht.dangers = 0 /\ ~dht.pins["RELAY"]

\* C15: DHT22 sketch: whenever a sensor refresh finds an invalid reading and
\* sensorErrorCount is then greater than 5, the level is Warning when
\* readSensorsSecure and checkRisk have finished, provided the substituted
\* temperature is below 60.
C15_SafetyModeWarning ==
  [][(/\ sketch = "dht22" /\ pc = "sensors" /\ raw' # <<>>
      /\ Said(dht', "SECURITY: invalid sensor data")
      /\ dht'.sensorErrorCount > 5
      /\ dht'.currentTemp < 600)
     => dht'.riskLevel = 1
    ]_vars

\* the 6th invalid reading in a row: readSensorsSecure entered the safety
\* mode and checkRisk took the level back to Normal at 25.0
C15_SafetyModeUndone ==
  /\ sketch = "dht22" /\ pc = "integrity" /\ raw # <<>>
  /\ raw[1].temp.nan
  /\ dht.sensorErrorCount = 6
  /\ Said(dht, "SECURITY: entering safety mode")
  /\ Said(dht, "NORMAL RESTORED")
  /\ dht.currentTemp = 250 /\ dht.riskLevel = 0

\* the trimmed, upper case line is empty or longer than ceiling characters
Malformed(l, ceiling) ==
  Len(Normalized(l)) = 0 \/ Len(Normalized(l)) > ceiling

\* C16: in both sketches a command whose trimmed length is 0 or above the
\* ceiling (part_000: 15, DHT22 sketch: 20) is rejected before any keyword
\* comparison: the invalid-command count grows by exactly 1, and mode, demo
\* temperature, demo motion, risk level, latch and sensor error count are
\* unchanged.
C16_MalformedCountsOnce ==
  [][(pc = "commands" /\ line' # <<>>) =>
       /\ (sketch = "part_000" /\ Malformed(line'[1], 15)) =>
            /\ tk'.invalidCommandCount = tk.invalidCommandCount + 1
            /\ tk'.systemMode = tk.systemMode
            /\ tk'.demoTemperature = tk.demoTemperature
            /\ tk'.demoMotion = tk.demoMotion
            /\ tk'.currentRiskLevel = tk.currentRiskLevel
            /\ tk'.suppressionActivated = tk.suppressionActivated
            /\ tk'.sensorErrorCount = tk.sensorErrorCount
       /\ (sketch = "dht22" /\ Malformed(line'[1], 20)) =>
            /\ dht'.invalidCommandCount = dht.invalidCommandCount + 1
            /\ dht'.sysMode = dht.sysMode
            /\ dht'.demoTemp = dht.demoTemp
            /\ dht'.demoMotion = dht.demoMotion
            /\ dht'.riskLevel = dht.riskLevel
            /\ dht'.suppressed = dht.suppressed
            /\ dht'.sensorErrorCount = dht.sensorErrorCount
     ]_vars

\* the 256th empty line in a row has taken invalidCommandCount from 255 to 0
C16_CountWrapped ==
  /\ sketch = "part_000" /\ pc = "log"
  /\ line = <<L_empty>> /\ sent = 256
  /\ Said(tk, "SECURITY: invalid command format")
  /\ tk.invalidCommandCount = 0

\* C17: part_000: a command of valid length that matches no keyword
\* increments the invalid-command count by 1; when the count thereby reaches
\* the threshold 3 (or is beyond it) the security alert is emitted and the
\* count is reset to 0 in the same step, otherwise no alert is emitted;
\* nothing else changes.
C17_UnknownCommandCounts ==
  [][(/\ sketch = "part_000" /\ pc = "commands" /\ line' # <<>>
      /\ Len(Normalized(line'[1])) \in 1..15
      /\ Normalized(line'[1]) \notin
           {K_HELP, K_STATUS, K_TEST_NORMAL, K_TEST_WARNING, K_TEST_DANGER,
            K_MOTION, K_RESET, K_AUTO, K_DEMO, K_STATS, K_SECURITY})
     => LET count == tk.invalidCommandCount + 1
        IN /\ tk'.invalidCommandCount = IF count >= 3 THEN 0 ELSE count
           /\ Said(tk', "ALERT: multiple invalid commands") <=> count >= 3
           /\ [tk' EXCEPT !.serial = <<>>, !.invalidCommandCount = 0]
                = [tk EXCEPT !.serial = <<>>, !.invalidCommandCount = 0]
    ]_vars

\* an unknown command has left the count at 0 without an alert: the count
\* was 255 before it
C17_NoAlertAtWrap ==
  /\ sketch = "part_000" /\ pc = "log"
  /\ line = <<L_unknown>>
  /\ Said(tk, "unknown command")
  /\ ~Said(tk, "ALERT: multiple invalid commands")
  /\ tk.invalidCommandCount = 0

\* C18: part_000: the invalid-command count resets on reaching the threshold
\* for every kind of rejected input: after every processed command, whatever
\* the mix of empty, over-length and unrecognized commands,
\* invalidCommandCount is below 3 (every third rejected command having
\* raised the security alert).
C18_CountBelowThreshold ==
  (sketch = "part_000" /\ pc = "log" /\ line # <<>>)
    => tk.invalidCommandCount < 3

\* the third empty line in a row: the count is 3 and no alert was raised
C18_ThreeMalformed ==
  /\ sketch = "part_000" /\ pc = "log"
  /\ line = <<L_empty>> /\ sent = 3
  /\ Said(tk, "SECURITY: invalid command format")
  /\ ~Said(tk, "ALERT: multiple invalid commands")
  /\ tk.invalidCommandCount = 3

\* C19: in both sketches, whenever the level is Warning after the render
\* step (LED update and buzzer update) the green and the red LED are off, and
\* whenever it is Danger the green and the yellow LED are off, for every way
\* of entering the level and at any time since the last toggle.
C19_OnlyTheLevelsLed ==
  pc = "suppression" =>
    /\ sketch = "part_000" =>
         /\ tk.currentRiskLevel = 1
              => ~tk.pins["LED_GREEN"] /\ ~tk.pins["LED_RED"]
         /\ tk.currentRiskLevel = 2
              => ~tk.pins["LED_GREEN"] /\ ~tk.pins["LED_YELLOW"]
    /\ sketch = "dht22" =>
         /\ dht.riskLevel = 1
              => ~dht.pins["LED_GREEN"] /\ ~dht.pins["LED_RED"]
         /\ dht.riskLevel = 2
              => ~dht.pins["LED_GREEN"] /\ ~dht.pins["LED_YELLOW"]

\* Danger -> Warning 200 ms after the red LED was switched on: the render
\* step of the pass has left it on
C19_RedStaysOn ==
  /\ sketch = "part_000" /\ pc = "suppression" /\ raw # <<>>
  /\ tk.currentRiskLevel = WARNING
  /\ tk.dangerActivations = 1
  /\ tk.sinceLedUpdate = 200
  /\ tk.pins["LED_RED"] /\ ~tk.pins["LED_YELLOW"] /\ ~tk.pins["LED_GREEN"]

\* the outputs of the Normal level: green on, yellow and red off, buzzer and
\* relay off
NormalOutputs(pins) ==
  /\ pins["LED_GREEN"]
  /\ ~pins["LED_YELLOW"] /\ ~pins["LED_RED"]
  /\ ~pins["BUZZER"] /\ ~pins["RELAY"]

\* C20: in both sketches, at the end of every pass of loop() in which the
\* level is Normal the green LED is on, the yellow and the red LED, the
\* buzzer and the relay are off, whatever the pass did (sensor refresh,
\* suppression, any command, RESET included).
C20_NormalOutputs ==
  pc = "sensors" =>
    /\ (sketch = "part_000" /\ tk.currentRiskLevel = 0) => NormalOutputs(tk.pins)
    /\ (sketch = "dht22" /\ dht.riskLevel = 0) => NormalOutputs(dht.pins)

\* the end of a pass that ran the suppression sequence (3600 ms of delay)
\* and then read RESET
C20_Witness ==
  /\ sketch = "part_000" /\ pc = "sensors"
  /\ tk.currentRiskLevel = NORMAL
  /\ tk.currentTemperature >= Deg(60)
  /\ tk.suppressionActivations = 1 /\ ~tk.suppressionActivated
  /\ tk.sinceLoopStart = 3600
  /\ NormalOutputs(tk.pins)

\* C21: in both sketches, at the end of every pass of loop() in which the
\* level is Danger the buzzer output is on, also in the pass that ran the
\* suppression sequence.
C21_DangerBuzzerOn ==
  pc = "sensors" =>
    /\ (sketch = "part_000" /\ tk.currentRiskLevel = 2) => tk.pins["BUZZER"]
    /\ (sketch = "dht22" /\ dht.riskLevel = 2) => dht.pins["BUZZER"]

\* the end of the pass that ran the suppression sequence (3600 ms of delay)
\* and read no line: the level is Danger and the buzzer is on
C21_Witness ==
  /\ sketch = "part_000" /\ pc = "sensors"
  /\ tk.currentRiskLevel = DANGER
  /\ tk.suppressionActivated /\ tk.suppressionActivations = 1
  /\ tk.sinceLoopStart = 3600
  /\ tk.pins["BUZZER"] /\ ~tk.pins["RELAY"]

\* C22: in both sketches the render step (LED update, then buzzer update) is
\* idempotent at a fixed time: for every level and every stored toggle
\* state, a second run at the same clock value and level leaves the LEDs,
\* the buzzer, the blink states and the times of the last toggles as the
\* first run left them; the second run toggles nothing.
C22_RenderIdempotent ==
  [][pc = "rendered" =>
       /\ tk'.pins = tk.pins
       /\ tk'.ledBlinkState = tk.ledBlinkState
       /\ tk'.buzzerBeepState = tk.buzzerBeepState
       /\ tk'.sinceLedUpdate = tk.sinceLedUpdate
       /\ tk'.sinceBuzzerUpdate = tk.sinceBuzzerUpdate
       /\ dht'.pins = dht.pins
       /\ dht'.ledState = dht.ledState
       /\ dht'.buzzState = dht.buzzState
       /\ dht'.sinceLed = dht.sinceLed
       /\ dht'.sinceBuzz = dht.sinceBuzz
       /\ hist'.toggles = hist.toggles
     ]_vars

\* at Warning the first run toggled the yellow LED on and the buzzer on; the
\* second run has left both as they were
C22_Witness ==
  /\ sketch = "part_000" /\ pc = "rendered twice"
  /\ tk.currentRiskLevel = WARNING
  /\ hist.toggles = 2
  /\ tk.ledBlinkState /\ tk.pins["LED_YELLOW"]
  /\ tk.buzzerBeepState /\ tk.pins["BUZZER"]
  /\ tk.sinceLedUpdate = 0 /\ tk.sinceBuzzerUpdate = 0

\* C23: part_000: the entry statistics count once per episode, an episode of
\* a tier being a maximal interval in which the level stays at or above the
\* tier: in every step warningActivations grows by 1 when a Warning episode
\* starts (the level leaves Normal) and dangerActivations by 1 when a Danger
\* episode starts (the level becomes Danger), and neither grows in a step
\* that starts no episode; Warning -> Danger -> Warning is one Warning
\* episode.
C23_OncePerEpisode ==
  [][sketch = "part_000" =>
       LET startsWarning == tk.currentRiskLevel = 0 /\ tk'.currentRiskLevel >= 1
           startsDanger == tk.currentRiskLevel < 2 /\ tk'.currentRiskLevel = 2
       IN /\ tk'.warningActivations =
               tk.warningActivations + (IF startsWarning THEN 1 ELSE 0)
          /\ tk'.dangerActivations =
               tk.dangerActivations + (IF startsDanger THEN 1 ELSE 0)
     ]_vars

\* three refreshes, Warning -> Danger -> Warning with no Normal between
\* them: warningActivations is 2
C23_CountedTwice ==
  /\ sketch = "part_000" /\ pc = "leds" /\ raw # <<>>
  /\ tk.totalSensorReadings = 3
  /\ tk.currentRiskLevel = WARNING
  /\ Said(tk, "WARNING LEVEL ACTIVATED")
  /\ tk.warningActivations = 2 /\ tk.dangerActivations = 1
  /\ hist.entries = 1

\* C24: part_000: a simulated risk state is never reached before a real
\* measurement: in every reachable state where the mode is Demo and the
\* effective temperature is the injected 55 or 70, a refresh in Auto mode
\* has read the TMP36 before, whatever the order of the DEMO, AUTO, MOTION
\* and TEST_ commands.
C24_MeasuredBeforeSimulated ==
  (/\ sketch = "part_000"
   /\ tk.systemMode = 1
   /\ tk.currentTemperature \in {55 * 1023, 70 * 1023})
  => hist.hardware

\* DEMO after the first refresh, TEST_WARNING after the second: the third
\* refresh, the second in Demo mode, has set 55.0 and Warning
C24_Witness ==
  /\ sketch = "part_000" /\ pc = "leds" /\ raw # <<>>
  /\ tk.systemMode = DEMO_MODE /\ sent = 2
  /\ tk.totalSensorReadings = 3
  /\ tk.currentTemperature = Deg(55) /\ tk.currentRiskLevel = WARNING
  /\ tk.lastValidTemperature # Deg(25)
  /\ hist.hardware /\ hist.test = 55

\* C25: in both sketches the suppression sequence is atomic with respect to
\* the rest of loop(): while the relay is high the only step that runs is
\* the rest of the sequence (no sensor refresh, risk evaluation, LED or
\* buzzer update, command), the sequence ends with the relay low, and the
\* relay is low at the end of every pass.
C25_SuppressionAtomic ==
  [][LET now == IF sketch = "part_000" THEN tk ELSE dht
         next == IF sketch = "part_000" THEN tk' ELSE dht'
         level(s) == IF sketch = "part_000" THEN s.currentRiskLevel ELSE s.riskLevel
         temperature(s) == IF sketch = "part_000" THEN s.currentTemperature
                           ELSE s.currentTemp
         readings(s) == IF sketch = "part_000" THEN s.totalSensorReadings
                        ELSE s.readings
     IN /\ now.pins["RELAY"] => pc = "deployed"
        /\ next.pins["RELAY"] => pc' = "deployed"
        /\ pc = "deployed" =>
             /\ pc' = "commands" /\ ~next.pins["RELAY"]
             /\ raw' = raw /\ line' = line /\ sent' = sent
             /\ level(next) = level(now)
             /\ temperature(next) = temperature(now)
             /\ readings(next) = readings(now)
             /\ next.pins["BUZZER"] = now.pins["BUZZER"]
             /\ next.invalidCommandCount = now.invalidCommandCount
        /\ pc' = "sensors" => ~next.pins["RELAY"]
    ]_vars

\* the DHT22 sketch has just finished the sequence (2600 ms of delay): the
\* relay is low and the command step comes next
C25_Witness ==
  /\ sketch = "dht22" /\ pc = "commands"
  /\ Said(dht, "suppression completed")
  /\ dht.sinceLoopStart = 2600
  /\ dht.suppressed /\ dht.riskLevel = 2
  /\ ~dht.pins["RELAY"]

\* the order of the statements of loop() in part_000
LoopOrder ==
  {<<"sensors", "leds">>, <<"leds", "buzzer">>, <<"buzzer", "suppression">>,
   <<"suppression", "deployed">>, <<"suppression", "commands">>,
   <<"deployed", "commands">>, <<"commands", "log">>, <<"log", "sensors">>}

\* C26: part_000: within one pass of loop() the steps run in the order
\* sensor refresh, risk evaluation, LED update, buzzer update, suppression
\* check, command processing, status log. When the refresh of a pass leaves
\* the level Danger and the suppression validation passes, the sequence
\* starts in that pass before any line is read (a RESET waiting at that
\* moment is read after it), and a command other than RESET does not change
\* the level in the step that processes it.
C26_FixedOrder ==
  [][sketch = "part_000" =>
       /\ <<pc, pc'>> \in LoopOrder
       /\ pc # "commands" => sent' = sent /\ (line' = <<>> \/ line' = line)
       /\ pc \in {"sensors", "leds", "buzzer", "suppression", "deployed"}
            => line = <<>>
       /\ (/\ pc = "suppression" /\ raw # <<>>
           /\ tk.currentRiskLevel = 2 /\ ~tk.suppressionActivated
           /\ tk.currentTemperature >= 60 * 1023
           /\ tk.totalSensorReadings > 3 /\ tk.systemIntegrityOK)
            => /\ pc' = "deployed"
               /\ tk'.suppressionActivations = tk.suppressionActivations + 1
               /\ tk'.pins["RELAY"]
       /\ (pc = "commands" /\ line' # <<>>)
            => tk'.currentRiskLevel =
                 IF Normalized(line'[1]) = K_RESET THEN 0 ELSE tk.currentRiskLevel
     ]_vars

\* the pass whose refresh raised the level to Danger at the 4th reading: the
\* sequence has run (3600 ms of delay), and then RESET was read
C26_Witness ==
  /\ sketch = "part_000" /\ pc = "log"
  /\ raw # <<>> /\ line = <<L_reset>>
  /\ tk.totalSensorReadings = 4
  /\ tk.dangerActivations = 1 /\ tk.suppressionActivations = 1
  /\ tk.sinceLoopStart = 3600
  /\ tk.currentRiskLevel = NORMAL

\* the number of sensor refreshes so far
Refreshes == IF sketch = "part_000" THEN tk.totalSensorReadings ELSE dht.readings

\* C27: in both sketches the system never halts: whatever readings (valid,
\* invalid, repeated failures) and lines (valid, malformed, unknown) arrive,
\* every pass of loop() that has started finishes, the suppression sequence
\* included, and from the start of every pass a sensor refresh comes, in
\* that pass or a later one (as long as the run has room for a refresh).
C27_NeverHalts ==
  /\ (pc # "sensors") ~> (pc = "sensors")
  /\ (pc = "sensors" /\ Refreshes < env.maxReadings) ~> (raw # <<>>)

\* the end of a pass of part_000 after 5 rejected readings in a row, an
\* empty and an unknown line: the integrity flag is false
C27_Witness ==
  /\ sketch = "part_000" /\ pc = "sensors"
  /\ tk.sensorErrorCount = 5 /\ ~tk.systemIntegrityOK
  /\ tk.invalidCommandCount = 2 /\ sent = 2
  /\ tk.totalSensorReadings = 5

\* C28: part_000: the statistics counters totalSensorReadings,
\* warningActivations, dangerActivations and suppressionActivations never
\* decrease in any step of any execution, and the RESET command leaves all
\* four unchanged.
C28_StatisticsNeverDecrease ==
  [][sketch = "part_000" =>
       /\ tk'.totalSensorReadings >= tk.totalSensorReadings
       /\ tk'.warningActivations >= tk.warningActivations
       /\ tk'.dangerActivations >= tk.dangerActivations
       /\ tk'.suppressionActivations >= tk.suppressionActivations
       /\ (pc = "commands" /\ line' # <<>> /\ Normalized(line'[1]) = K_RESET)
            => /\ tk'.totalSensorReadings = tk.totalSensorReadings
               /\ tk'.warningActivations = tk.warningActivations
               /\ tk'.dangerActivations = tk.dangerActivations
               /\ tk'.suppressionActivations = tk.suppressionActivations
     ]_vars

\* the refresh of pass 65536 has counted: totalSensorReadings is 0, and the
\* reading of 60.5 degrees leaves the level Danger
C28_ReadingsWrapped ==
  /\ sketch = "part_000" /\ pc = "leds" /\ raw # <<>>
  /\ raw[1].analogValue = 226
  /\ tk.totalSensorReadings = 0
  /\ tk.currentRiskLevel = DANGER

\* C29: part_000: the consecutive-error counter is not capped: for every
\* n >= 1, after n rejected Auto-mode readings in a row (no accepted
\* reading, Demo refresh or RESET between them) sensorErrorCount equals n,
\* and the security alert is emitted at each of those refreshes from the
\* 5th on.
C29_ErrorCountNotCapped ==
  (sketch = "part_000" /\ pc = "leds" /\ raw # <<>> /\ hist.rejected >= 1)
    => /\ tk.sensorErrorCount = hist.rejected
       /\ hist.rejected >= 5 => Said(tk, "ALERT: multiple sensor failures")

\* the 257th rejected reading in a row: the counter is 1 and no alert is
\* emitted
C29_NoAlertAfterWrap ==
  /\ sketch = "part_000" /\ pc = "leds" /\ raw # <<>>
  /\ hist.rejected = 257
  /\ tk.sensorErrorCount = 1
  /\ Said(tk, "invalid temperature reading")
  /\ ~Said(tk, "ALERT: multiple sensor failures")

\* C30: part_000: after every risk evaluation the human-presence alert has
\* been emitted in that evaluation iff the resulting level is Warning or
\* Danger and the motion flag read in the same refresh (the PIR input in
\* Auto mode, the injected flag in Demo mode) is true, at every such
\* refresh and not only when the level changes; the alert changes no state:
\* the level, the latch and the statistics after the refresh are those the
\* temperature and the level before give, the motion flag is the one read.
C30_PresenceAlert ==
  [][(sketch = "part_000" /\ pc = "sensors" /\ raw' # <<>>) =>
       LET motion == IF tk.systemMode = 1 THEN tk.demoMotion ELSE raw'[1].pir
           before == tk.currentRiskLevel
           after == RiskOf(tk'.currentTemperature, 1023)
       IN /\ Said(tk', "ALERT: human presence in risk zone")
               <=> (tk'.currentRiskLevel >= 1 /\ motion)
          /\ tk'.motionDetected = motion
          /\ tk'.currentRiskLevel = after
          /\ tk'.warningActivations =
               tk.warningActivations + (IF after = 1 /\ before # 1 THEN 1 ELSE 0)
          /\ tk'.dangerActivations =
               tk.dangerActivations + (IF after = 2 /\ before # 2 THEN 1 ELSE 0)
          /\ tk'.suppressionActivated =
               (tk.suppressionActivated /\ ~(after = 0 /\ before # 0))
          /\ tk'.suppressionActivations = tk.suppressionActivations
          /\ tk'.systemMode = tk.systemMode
          /\ tk'.demoMotion = tk.demoMotion
          /\ tk'.demoTemperature = tk.demoTemperature
          /\ tk'.invalidCommandCount = tk.invalidCommandCount
          /\ tk'.pins = tk.pins
     ]_vars

\* the second refresh in a row at Warning with the PIR input high, in Auto
\* mode: the level has not changed and the alert is emitted again
C30_Witness ==
  /\ sketch = "part_000" /\ pc = "leds" /\ raw # <<>>
  /\ tk.systemMode = AUTO_MODE /\ raw[1].pir
  /\ tk.currentRiskLevel = WARNING
  /\ tk.warningActivations = 1 /\ tk.dangerActivations = 0
  /\ tk.totalSensorReadings = 2
  /\ ~Said(tk, "WARNING LEVEL ACTIVATED")
  /\ Said(tk, "ALERT: human presence in risk zone")

\* C31: part_000: a sensor refresh in Demo mode sets the effective
\* temperature to the injected demo temperature and the effective motion to
\* the injected motion flag without range validation (nothing is rejected),
\* never increments the error counter, and leaves the last-known-good
\* temperature and the statistics other than the reading count unchanged:
\* the reading count grows by 1, the suppression count stays, and the
\* Warning and Danger counts grow only by what the risk evaluation that
\* follows the refresh gives for the change of level.
C31_DemoRefresh ==
  [][(sketch = "part_000" /\ pc = "sensors" /\ raw' # <<>>
        /\ tk.systemMode = DEMO_MODE) =>
       LET before == tk.currentRiskLevel
           after == tk'.currentRiskLevel
       IN /\ tk'.currentTemperature = tk.demoTemperature
          /\ tk'.motionDetected = tk.demoMotion
          /\ ~Said(tk', "invalid temperature reading")
          /\ tk'.sensorErrorCount <= tk.sensorErrorCount
          /\ tk'.lastValidTemperature = tk.lastValidTemperature
          /\ tk'.totalSensorReadings = tk.totalSensorReadings + 1
          /\ tk'.suppressionActivations = tk.suppressionActivations
          /\ tk'.warningActivations =
               tk.warningActivations
                 + (IF after = WARNING /\ before # WARNING THEN 1 ELSE 0)
          /\ tk'.dangerActivations =
               tk.dangerActivations
                 + (IF after = DANGER /\ before # DANGER THEN 1 ELSE 0)
     ]_vars

\* a Demo refresh after TEST_DANGER that follows 5 rejected readings: the
\* PIR input is high and the TMP36 out of range, the effective values are
\* the injected ones (70 degrees, no motion), the error count is back at 0
\* and the last-known-good temperature is still the 25 degrees of setup()
C31_Witness ==
  /\ sketch = "part_000" /\ pc = "leds" /\ raw # <<>>
  /\ tk.systemMode = DEMO_MODE
  /\ raw[1].pir /\ ~TkInRange(raw[1].analogValue)
  /\ tk.currentTemperature = Deg(70) /\ ~tk.motionDetected
  /\ tk.lastValidTemperature = Deg(25)
  /\ tk.sensorErrorCount = 0 /\ hist.okBefore /\ ~tk.systemIntegrityOK
  /\ tk.totalSensorReadings = 6 /\ tk.dangerActivations = 1

\* C32: in both sketches, at Warning the LED update toggles the yellow LED
\* only when at least 1000 ms have passed since its last toggle and the
\* buzzer update toggles the buzzer only when at least 2000 ms have passed
\* since its last toggle; at Danger the LED update toggles the red LED only
\* when at least 200 ms have passed since its last toggle. The two outputs
\* have separate last-toggle timestamps, so a toggle of one never postpones
\* the other: each toggles in the first pass in which its own time is up.
\* (The ages are measured on the run, hist.ledAge and hist.buzzerAge, not
\* read from the timestamps of the sketch.)
C32_TogglesApart ==
  [][LET part == sketch = "part_000"
         level == IF part THEN tk.currentRiskLevel ELSE dht.riskLevel
         led == IF part THEN tk'.ledBlinkState # tk.ledBlinkState
                        ELSE dht'.ledState # dht.ledState
         beep == IF part THEN tk'.buzzerBeepState # tk.buzzerBeepState
                         ELSE dht'.buzzState # dht.buzzState
         same == IF part THEN tk'.pins = tk.pins ELSE dht'.pins = dht.pins
     IN /\ (pc = "leds" /\ level = WARNING) =>
             ((led <=> (hist.ledAge >= 1000)) /\ (~led => same))
        /\ (pc = "leds" /\ level = DANGER) =>
             ((led <=> (hist.ledAge >= 200)) /\ (~led => same))
        /\ (pc = "buzzer" /\ level = WARNING) =>
             ((beep <=> (hist.buzzerAge >= 2000)) /\ (~beep => same))
    ]_vars

\* part_000, three refreshes 1000 ms apart that all read 50.2 degrees: the
\* buzzer has just toggled for the second time, 2000 ms after the first,
\* in the pass in which the yellow LED toggled for the third time
C32_Witness ==
  /\ sketch = "part_000" /\ pc = "suppression"
  /\ tk.currentRiskLevel = WARNING
  /\ tk.totalSensorReadings = 3
  /\ tk.warningActivations = 1 /\ tk.dangerActivations = 0
  /\ hist.ledAge = 0 /\ hist.buzzerAge = 0
  /\ tk.ledBlinkState /\ tk.pins["LED_YELLOW"]
  /\ ~tk.buzzerBeepState /\ ~tk.pins["BUZZER"]

\* C33: part_000: at the end of every pass of loop() the integrity flag is
\* false exactly when the consecutive-error counter is at least 5, for
\* every interleaving of Auto refreshes, Demo refreshes and commands.
C33_FlagFollowsCount ==
  (sketch = "part_000" /\ pc = "sensors") =>
    (~tk.systemIntegrityOK <=> tk.sensorErrorCount >= MAX_SENSOR_ERRORS)

\* the end of the pass of the first Demo refresh after 5 rejected readings
\* and the command DEMO: the counter is 0 and the flag is still false
C33_FlagStaysDown ==
  /\ sketch = "part_000" /\ pc = "sensors"
  /\ tk.systemMode = DEMO_MODE
  /\ tk.totalSensorReadings = 6
  /\ hist.okBefore /\ hist.rejected = 0
  /\ tk.sensorErrorCount = 0
  /\ ~tk.systemIntegrityOK
  /\ tk.currentRiskLevel = NORMAL

\* C34: part_000: in every reachable state suppressionActivations is at most
\* dangerActivations: every suppression activation belongs to a Danger
\* entry of its own, also across RESET commands issued during a Danger
\* episode (below the overflow of the counters).
C34_ActivationsWithinEntries ==
  sketch = "part_000" => tk.suppressionActivations <= tk.dangerActivations

\* the suppression sequence has started at the 4th and again at the 5th
\* refresh: between the two the latch was cleared by RESET, sent while the
\* level was Danger, and the 5th refresh counted a Danger entry of its own
C34_Witness ==
  /\ sketch = "part_000" /\ pc = "deployed"
  /\ tk.totalSensorReadings = 5
  /\ sent = 1
  /\ tk.suppressionActivations = 2
  /\ tk.dangerActivations = 2

\* C35: part_000: at the end of every pass of loop(), if the suppression
\* latch is set then the risk level is Warning or Danger: the latch is never
\* set while the level is Normal, for every sequence of refreshes and
\* commands.
C35_LatchOnlyAtRisk ==
  (sketch = "part_000" /\ pc = "sensors" /\ tk.suppressionActivated) =>
    tk.currentRiskLevel \in {WARNING, DANGER}

\* the end of the pass after the one in which the suppression sequence ran:
\* the 5th refresh read 60.5 degrees again, the latch is still set
C35_Witness ==
  /\ sketch = "part_000" /\ pc = "sensors"
  /\ tk.suppressionActivated
  /\ tk.currentRiskLevel = DANGER
  /\ tk.suppressionActivations = 1
  /\ tk.totalSensorReadings = 5
  /\ tk.systemMode = AUTO_MODE

\* C36: part_000: in every reachable state the effective temperature used
\* for the risk evaluation and the last-known-good temperature lie within
\* [-10, 85] degrees, whatever raw values the sensor delivers and whatever
\* commands are issued.
C36_TemperaturesInRange ==
  sketch = "part_000" =>
    /\ tk.currentTemperature >= Deg(TEMP_MIN_VALID)
    /\ tk.currentTemperature <= Deg(TEMP_MAX_VALID)
    /\ tk.lastValidTemperature >= Deg(TEMP_MIN_VALID)
    /\ tk.lastValidTemperature <= Deg(TEMP_MAX_VALID)

\* a refresh in Auto mode has read the largest value analogRead() can
\* return (450 degrees) after a reading of -9.9 degrees: the reading is
\* rejected, the effective temperature is the last good one
C36_Witness ==
  /\ sketch = "part_000" /\ pc = "leds" /\ raw # <<>>
  /\ tk.systemMode = AUTO_MODE
  /\ raw[1].analogValue = 1023
  /\ tk.sensorErrorCount = 1
  /\ tk.currentTemperature = TMP36(82)
  /\ tk.lastValidTemperature = TMP36(82)

\* C37: in both sketches, wherever the suppression check runs, a risk level
\* of Danger implies an effective temperature of at least 60 degrees, so the
\* temperature test inside validateSuppressionCommand never fails on its own
\* at Danger: the validation fails only on the warm-up floor or, in
\* part_000, on the integrity flag.
C37_DangerMeansHot ==
  pc = "suppression" =>
    IF sketch = "part_000"
    THEN tk.currentRiskLevel = DANGER =>
           /\ tk.currentTemperature >= Deg(60)
           /\ validateSuppressionCommand(tk)
                <=> (tk.totalSensorReadings > 3 /\ tk.systemIntegrityOK)
    ELSE dht.riskLevel = DANGER =>
           /\ dht.currentTemp >= Tenths(60)
           /\ validateSuppressionCommand_dht(dht) <=> (dht.readings > 5)

\* part_000 at the suppression check of its second pass: the level is
\* Danger at 60.5 degrees, the latch is clear, and the validation fails on
\* the warm-up floor alone
C37_Witness ==
  /\ sketch = "part_000" /\ pc = "suppression"
  /\ tk.currentRiskLevel = DANGER /\ ~tk.suppressionActivated
  /\ tk.currentTemperature = TMP36(226)
  /\ tk.totalSensorReadings = 2
  /\ tk.systemIntegrityOK
  /\ ~validateSuppressionCommand(tk)

====
